---- MODULE Spec2Model ----
(***************************************************************************)
(* Conversational decision pipeline of the voice assistant:                *)
(*   core/intent_schema.py, core/intent_parser.py, core/context_memory.py, *)
(*   core/mode_manager.py, core/safety_engine.py, core/fusion_engine.py,   *)
(*   execution/executor.py, router/decision_router.py,                     *)
(*   voice/assistant_runtime.py, voice/voice_loop.py                       *)
(*                                                                         *)
(* Utterances are strings; every text conversion of the code (strip,      *)
(* lower, punctuation removal, regular-expression search, split) is an     *)
(* operator on the characters of the string.  Confidences are written in   *)
(* hundredths (0.85 is 85).  Python's None is the value None for strings   *)
(* and NoIntent / NoDecision for objects.                                  *)
(***************************************************************************)
EXTENDS Integers, Sequences, FiniteSets, TLC

(***************************************************************************)
(* Characters and strings (Python str methods and the re module)           *)
(***************************************************************************)

None == "<None>"

LowerAlphabet == "abcdefghijklmnopqrstuvwxyz"

UpperAlphabet == "ABCDEFGHIJKLMNOPQRSTUVWXYZ"

DigitChars == "0123456789"

Char(s, i) == SubSeq(s, i, i)

InStr(c, s) == \E i \in 1..Len(s) : Char(s, i) = c

\* str.lower() on one character
LowerChar(c) ==
    IF InStr(c, UpperAlphabet)
    THEN Char(LowerAlphabet, CHOOSE i \in 1..Len(UpperAlphabet) : Char(UpperAlphabet, i) = c)
    ELSE c

RECURSIVE Lower(_)
Lower(s) == IF s = "" THEN "" ELSE LowerChar(Head(s)) \o Lower(Tail(s))

\* \s of the re module, on the characters the inputs contain
IsSpace(c) == c = " "

\* \d
IsDigit(c) == InStr(c, DigitChars)

\* \w
IsWordChar(c) == InStr(c, LowerAlphabet) \/ InStr(c, UpperAlphabet) \/ IsDigit(c) \/ c = "_"

RECURSIVE LStrip(_)
LStrip(s) == IF s # "" /\ IsSpace(Head(s)) THEN LStrip(Tail(s)) ELSE s

RECURSIVE RStrip(_)
RStrip(s) ==
    IF s # "" /\ IsSpace(Char(s, Len(s))) THEN RStrip(SubSeq(s, 1, Len(s) - 1)) ELSE s

\* str.strip()
Strip(s) == RStrip(LStrip(s))

\* re.sub(r"[^\w\s]", "", text)
RECURSIVE RemovePunctuation(_)
RemovePunctuation(s) ==
    IF s = "" THEN ""
    ELSE (IF IsWordChar(Head(s)) \/ IsSpace(Head(s)) THEN Head(s) ELSE "")
         \o RemovePunctuation(Tail(s))

\* re.sub(r"\s+", " ", text)
RECURSIVE CollapseSpaces(_)
CollapseSpaces(s) ==
    IF s = "" THEN ""
    ELSE IF IsSpace(Head(s))
         THEN " " \o CollapseSpaces(LStrip(s))
         ELSE Head(s) \o CollapseSpaces(Tail(s))

\* str.startswith(p)
StartsWith(s, p) == Len(s) >= Len(p) /\ SubSeq(s, 1, Len(p)) = p

\* p occurs in s at index i
OccursAt(s, p, i) == i >= 1 /\ i + Len(p) - 1 <= Len(s) /\ SubSeq(s, i, i + Len(p) - 1) = p

\* p in s
Contains(s, p) == \E i \in 1..Len(s) : OccursAt(s, p, i)

\* str.find(p) + 1: index of the first occurrence, 0 when there is none
Find(s, p) ==
    IF Contains(s, p)
    THEN CHOOSE i \in 1..Len(s) :
           OccursAt(s, p, i) /\ \A j \in 1..(i - 1) : ~OccursAt(s, p, j)
    ELSE 0

WordAt(s, k) == k >= 1 /\ k <= Len(s) /\ IsWordChar(Char(s, k))

\* \b between index i - 1 and index i
Boundary(s, i) == WordAt(s, i - 1) # WordAt(s, i)

\* re.search(r"\bp\b", s)
ContainsWord(s, p) ==
    \E i \in 1..Len(s) : OccursAt(s, p, i) /\ Boundary(s, i) /\ Boundary(s, i + Len(p))

\* the longest run of \w characters of s that starts at index i (greedy \w+)
RECURSIVE WordRun(_, _)
WordRun(s, i) == IF WordAt(s, i) THEN Char(s, i) \o WordRun(s, i + 1) ELSE ""

\* the longest run of digits of s that starts at index i (greedy \d+)
RECURSIVE DigitRun(_, _)
DigitRun(s, i) ==
    IF i <= Len(s) /\ IsDigit(Char(s, i)) THEN Char(s, i) \o DigitRun(s, i + 1) ELSE ""

\* str.isdigit()
IsDigitStr(s) == s # "" /\ \A i \in 1..Len(s) : IsDigit(Char(s, i))

DigitValue(c) == (CHOOSE i \in 1..Len(DigitChars) : Char(DigitChars, i) = c) - 1

\* int(s) of a string of digits
RECURSIVE ToInt(_)
ToInt(s) ==
    IF s = "" THEN 0
    ELSE 10 * ToInt(SubSeq(s, 1, Len(s) - 1)) + DigitValue(Char(s, Len(s)))

\* str.split(): the maximal runs of non-whitespace characters
RECURSIVE NonSpaceRun(_)
NonSpaceRun(s) == IF s = "" \/ IsSpace(Head(s)) THEN "" ELSE Head(s) \o NonSpaceRun(Tail(s))

RECURSIVE Split(_)
Split(s) ==
    LET t == LStrip(s)
        w == NonSpaceRun(t)
    IN  IF t = "" THEN <<>> ELSE <<w>> \o Split(SubSeq(t, Len(w) + 1, Len(t)))

\* " ".join(words)
RECURSIVE Join(_)
Join(words) ==
    IF words = <<>> THEN ""
    ELSE IF Len(words) = 1 THEN words[1]
    ELSE words[1] \o " " \o Join(Tail(words))

\* str.replace(p, "")
RECURSIVE RemoveAll(_, _)
RemoveAll(s, p) ==
    LET i == Find(s, p)
    IN  IF i = 0 THEN s
        ELSE SubSeq(s, 1, i - 1) \o RemoveAll(SubSeq(s, i + Len(p), Len(s)), p)

\* Python max
Max(a, b) == IF a >= b THEN a ELSE b

(***************************************************************************)
(* core/intent_schema.py                                                   *)
(***************************************************************************)

IntentTypes ==
    {"OPEN_APP", "SEARCH", "TYPE_TEXT", "CLICK", "SCROLL", "FILE_OPERATION",
     "SYSTEM_CONTROL", "QUESTION", "DICTATION", "CONTROL", "UNKNOWN"}

Modes == {"COMMAND", "DICTATION", "QUESTION", "DISABLED", "LISTENING"}

\* a parameters dict without the key "index"
NoIndex == -1

\* parameters = {} ; the keys the parser uses are index, name, target, task
NoParameters == [index |-> NoIndex, name |-> None, target |-> None, task |-> None]

\* context = {} ; the keys Context Memory and the Safety Engine write
EmptyContext ==
    [reference_resolved |-> FALSE, inferred_from |-> None, inference_confidence |-> 0,
     previous_topic |-> None, danger_pattern_detected |-> None]

\* Intent.__post_init__: the ranges a constructor call must satisfy
IntentValid(confidence, risk_level) ==
    /\ 0 <= confidence /\ confidence <= 100
    /\ 0 <= risk_level /\ risk_level <= 10

\* Intent(...) as the parser constructs it; mode keeps its default Mode.COMMAND
Intent(intent_type, text, action, target, parameters, confidence, confidence_source, risk_level, requires_confirmation) ==
    [intent_type |-> intent_type, text |-> text, action |-> action, target |-> target,
     parameters |-> parameters, confidence |-> confidence,
     confidence_source |-> confidence_source, context |-> EmptyContext,
     mode |-> "COMMAND", requires_confirmation |-> requires_confirmation,
     risk_level |-> risk_level, blocked_reason |-> None]

\* no Intent object (Python None where an Intent is expected)
NoIntent == [none |-> TRUE]

(***************************************************************************)
(* core/intent_parser.py                                                   *)
(***************************************************************************)

\* command_keywords, in the insertion order _detect_command iterates
command_keywords ==
    << [keyword |-> "open",      intent_type |-> "OPEN_APP",       risk_level |-> 1],
       [keyword |-> "close",     intent_type |-> "SYSTEM_CONTROL", risk_level |-> 2],
       [keyword |-> "delete",    intent_type |-> "FILE_OPERATION", risk_level |-> 8],
       [keyword |-> "remove",    intent_type |-> "FILE_OPERATION", risk_level |-> 8],
       [keyword |-> "shutdown",  intent_type |-> "SYSTEM_CONTROL", risk_level |-> 9],
       [keyword |-> "restart",   intent_type |-> "SYSTEM_CONTROL", risk_level |-> 7],
       [keyword |-> "search",    intent_type |-> "SEARCH",         risk_level |-> 1],
       [keyword |-> "type",      intent_type |-> "TYPE_TEXT",      risk_level |-> 1],
       [keyword |-> "write",     intent_type |-> "TYPE_TEXT",      risk_level |-> 1],
       [keyword |-> "calculate", intent_type |-> "CALCULATE",      risk_level |-> 0] >>

\* number_words: the word at index i maps to i
number_words ==
    <<"one", "two", "three", "four", "five", "six", "seven", "eight", "nine", "ten">>

InNumberWords(w) == \E i \in 1..Len(number_words) : number_words[i] = w

NumberWordValue(w) == CHOOSE i \in 1..Len(number_words) : number_words[i] = w

question_patterns == <<"what is", "who is", "how to", "explain", "define">>

\* small_talk_patterns; r"\bthanks?\b" is the two words thank and thanks
small_talk_patterns == <<"hello", "hi", "bye", "thank", "thanks", "thank you">>

filler_words ==
    {"the", "a", "an", "please", "for", "to", "about", "can", "you", "could",
     "would", "hey", "assistant", "my"}

\* IntentParser._normalize
Parser_normalize(text) == CollapseSpaces(RemovePunctuation(Strip(Lower(text))))

\* the strings r"(what(?:s| is)? on (my )?screen|read screen|show options|what are the options)" matches
ReadScreenPhrases ==
    {"what on screen", "whats on screen", "what is on screen",
     "what on my screen", "whats on my screen", "what is on my screen",
     "read screen", "show options", "what are the options"}

RECURSIVE SkipSpaces(_, _)
SkipSpaces(s, j) == IF j <= Len(s) /\ IsSpace(Char(s, j)) THEN SkipSpaces(s, j + 1) ELSE j

\* index after "v\s+" when that matches at index i, else 0
AfterVerb(s, i, v) ==
    IF OccursAt(s, v, i) /\ SkipSpaces(s, i + Len(v)) > i + Len(v)
    THEN SkipSpaces(s, i + Len(v)) ELSE 0

\* index after the optional group "w\s+" when it matches at index j, else 0
AfterOptional(s, j, w) ==
    IF j > 0 /\ OccursAt(s, w, j) /\ SkipSpaces(s, j + Len(w)) > j + Len(w)
    THEN SkipSpaces(s, j + Len(w)) ELSE 0

\* group 3 of r"(click|select|open|choose)\s+(number\s+)?(\d+)" matched at index i
ClickDigitGroup(s, i, v) ==
    LET j == AfterVerb(s, i, v)
        k == AfterOptional(s, j, "number")
    IN  IF j = 0 THEN ""
        ELSE IF k > 0 /\ DigitRun(s, k) # "" THEN DigitRun(s, k)
        ELSE DigitRun(s, j)

\* group 3 of r"(click|select|choose)\s+(number\s+)?(\w+)" matched at index i
ClickWordGroup(s, i, v) ==
    LET j == AfterVerb(s, i, v)
        k == AfterOptional(s, j, "number")
    IN  IF j = 0 THEN ""
        ELSE IF k > 0 /\ WordRun(s, k) # "" THEN WordRun(s, k)
        ELSE WordRun(s, j)

\* group 3 of r"(click|press|select)\s+(the\s+)?(.+)" matched at index i, stripped
ClickNameGroup(s, i, v) ==
    LET j == AfterVerb(s, i, v)
        k == AfterOptional(s, j, "the")
    IN  IF j = 0 \/ j > Len(s) THEN ""
        ELSE IF k > 0 /\ k <= Len(s) THEN Strip(SubSeq(s, k, Len(s)))
        ELSE Strip(SubSeq(s, j, Len(s)))

\* group 3 of the click pattern of the given kind matched at index i
ClickGroup(kind, s, i, v) ==
    CASE kind = "digit" -> ClickDigitGroup(s, i, v)
      [] kind = "word" -> ClickWordGroup(s, i, v)
      [] kind = "name" -> ClickNameGroup(s, i, v)

\* the group of the leftmost of the matches at the indexes hits, "" when none
LeftmostGroup(kind, s, verbs, hits) ==
    IF hits = {} THEN ""
    ELSE ClickGroup(kind, s, CHOOSE h \in hits : \A g \in hits : h <= g,
                    CHOOSE w \in verbs :
                      ClickGroup(kind, s, CHOOSE h \in hits : \A g \in hits : h <= g, w) # "")

\* re.search of a click pattern: the group of the leftmost match, "" when none
SearchVerb(s, verbs, kind) ==
    LeftmostGroup(kind, s, verbs,
                  {i \in 1..Len(s) : \E v \in verbs : ClickGroup(kind, s, i, v) # ""})

\* IntentParser._detect_command: index into command_keywords of the first
\* keyword (in table order) found as a whole word, 0 when none
Parser_detect_command(text) ==
    LET hits == {k \in 1..Len(command_keywords) :
                    ContainsWord(text, command_keywords[k].keyword)}
    IN  IF hits = {} THEN 0 ELSE CHOOSE k \in hits : \A h \in hits : k <= h

\* IntentParser._extract_target
Parser_extract_target(text, keyword) ==
    LET i == Find(text, keyword)
        rest == SubSeq(text, i + Len(keyword), Len(text))
        cleaned == SelectSeq(Split(Strip(rest)), LAMBDA t : t \notin filler_words)
        joined == Strip(Join(cleaned))
    IN  IF i = 0 THEN None
        ELSE IF joined = "" THEN None ELSE joined

\* group 1 of r"^number\s+(\w+)$", "" when the text does not match
NumberOnlyGroup(text) ==
    IF StartsWith(text, "number ") /\ WordRun(text, SkipSpaces(text, 7)) # ""
       /\ SkipSpaces(text, 7) + Len(WordRun(text, SkipSpaces(text, 7))) = Len(text) + 1
    THEN WordRun(text, SkipSpaces(text, 7)) ELSE ""

\* the index a "number ..." utterance names, 0 (falsy) when it names none
NumberOnlyIndex(word) ==
    IF IsDigitStr(word) THEN ToInt(word)
    ELSE IF InNumberWords(word) THEN NumberWordValue(word)
    ELSE 0

\* the generic command layer of parse (lines 237-265) for the table entry kw
CommandIntent(original_text, text, kw, target) ==
    IF kw.keyword = "calculate"
    THEN Intent("QUESTION", original_text, "CALCULATE",
                Strip(RemoveAll(text, "calculate")), NoParameters,
                95, "keyword_rule", 0, FALSE)
    ELSE Intent(kw.intent_type, original_text, kw.intent_type, target,
                [NoParameters EXCEPT !.target = target],
                IF kw.risk_level < 7 THEN 95 ELSE 85, "keyword_rule",
                kw.risk_level, kw.risk_level >= 7)

\* the layers of parse from the generic command table on (lines 235-295)
ParseCommand(original_text, text, k) ==
    IF k # 0
    THEN CommandIntent(original_text, text, command_keywords[k],
                       Parser_extract_target(text, command_keywords[k].keyword))
    ELSE IF \E i \in 1..Len(small_talk_patterns) : ContainsWord(text, small_talk_patterns[i])
    THEN Intent("UNKNOWN", original_text, "SMALL_TALK", None, NoParameters,
                70, "small_talk", 0, FALSE)
    ELSE Intent("UNKNOWN", original_text, "UNKNOWN", None, NoParameters,
                30, "fallback", 0, FALSE)

\* the layers of parse on the normalized text, in source order, first match
\* wins: digit, word and name are group 3 of the three click patterns
ParseLayers(original_text, text, digit, word, name) ==
    IF \E p \in ReadScreenPhrases : Contains(text, p)
    THEN Intent("CONTROL", original_text, "READ_SCREEN", None, NoParameters,
                98, "semantic_ui_rule", 0, FALSE)
    ELSE IF digit # ""
    THEN Intent("CONTROL", original_text, "CLICK_INDEX", None,
                [NoParameters EXCEPT !.index = ToInt(digit)],
                95, "semantic_ui_rule", 0, FALSE)
    ELSE IF word # "" /\ InNumberWords(word)
    THEN Intent("CONTROL", original_text, "CLICK_INDEX", None,
                [NoParameters EXCEPT !.index = NumberWordValue(word)],
                95, "semantic_ui_word_number", 0, FALSE)
    ELSE IF NumberOnlyGroup(text) # "" /\ NumberOnlyIndex(NumberOnlyGroup(text)) # 0
    THEN Intent("CONTROL", original_text, "CLICK_INDEX", None,
                [NoParameters EXCEPT !.index = NumberOnlyIndex(NumberOnlyGroup(text))],
                95, "semantic_ui_number_only", 0, FALSE)
    ELSE IF name # "" /\ ~IsDigitStr(name) /\ ~InNumberWords(name)
    THEN Intent("CONTROL", original_text, "CLICK_NAME", None,
                [NoParameters EXCEPT !.name = name],
                90, "semantic_ui_name", 0, FALSE)
    ELSE IF Contains(text, "stop camera")
    THEN Intent("CONTROL", original_text, "STOP_CAMERA", None, NoParameters,
                95, "camera_control", 0, FALSE)
    ELSE IF Strip(text) = "open camera"
    THEN Intent("CONTROL", original_text, "VISION", "camera",
                [NoParameters EXCEPT !.task = "detect_objects"],
                95, "camera_open_rule", 0, FALSE)
    ELSE IF ContainsWord(text, "time")
    THEN Intent("QUESTION", original_text, "GET_TIME", None, NoParameters,
                95, "keyword_time", 0, FALSE)
    ELSE IF \E i \in 1..Len(question_patterns) : ContainsWord(text, question_patterns[i])
    THEN Intent("QUESTION", original_text, "KNOWLEDGE_QUERY", original_text, NoParameters,
                90, "regex", 0, FALSE)
    ELSE ParseCommand(original_text, text, Parser_detect_command(text))

\* parse on the normalized text
ParseNormalized(original_text, text) ==
    ParseLayers(original_text, text,
                SearchVerb(text, {"click", "select", "open", "choose"}, "digit"),
                SearchVerb(text, {"click", "select", "choose"}, "word"),
                SearchVerb(text, {"click", "press", "select"}, "name"))

\* IntentParser.parse; original_text is the text as passed in.  The code
\* never reads current_mode.
Parse(original_text, current_mode) ==
    ParseNormalized(original_text, Parser_normalize(original_text))

(***************************************************************************)
(* core/context_memory.py                                                  *)
(* A memory is the record [history, last_app, last_file, last_topic].      *)
(***************************************************************************)

\* Python truthiness of an optional string
Truthy(s) == s # None /\ s # ""

\* Python's "a or b" on optional strings
PyOr(a, b) == IF Truthy(a) THEN a ELSE b

\* ContextMemory.__init__ default max_history
max_history == 20

\* ContextMemory.__init__
NewMemory == [history |-> <<>>, last_app |-> None, last_file |-> None, last_topic |-> None]

\* variant of resolve_reference: the remembered file is preferred to the app
resolve_reference_file_first(mem, target) ==
    IF ~Truthy(target) THEN target
    ELSE LET t == Strip(Lower(target))
         IN  IF t \in {"it", "that", "this"} THEN PyOr(mem.last_file, mem.last_app) ELSE t

\* ContextMemory.resolve_reference
resolve_reference(mem, target) ==
    IF ~Truthy(target) THEN target
    ELSE LET t == Strip(Lower(target))
         IN  IF t \in {"it", "that", "this"} THEN PyOr(mem.last_app, mem.last_file) ELSE t

\* enrich, reference resolution (lines 50-54)
enrich_reference(mem, intent, resolved) ==
    IF Truthy(intent.target) /\ Truthy(resolved)
    THEN [intent EXCEPT !.target = resolved, !.context.reference_resolved = TRUE]
    ELSE intent

\* enrich, SEARCH target inference (lines 59-63)
enrich_search(mem, intent) ==
    IF intent.action = "SEARCH" /\ ~Truthy(intent.target) /\ Truthy(mem.last_app)
    THEN [intent EXCEPT !.target = mem.last_app,
                        !.context.inferred_from = "last_app",
                        !.context.inference_confidence = 85]
    ELSE intent

\* enrich, DELETE target inference (lines 68-72)
enrich_delete(mem, intent) ==
    IF intent.action = "DELETE" /\ ~Truthy(intent.target) /\ Truthy(mem.last_file)
    THEN [intent EXCEPT !.target = mem.last_file,
                        !.context.inferred_from = "last_file",
                        !.context.inference_confidence = 80]
    ELSE intent

\* enrich, topic carry-forward (lines 77-79); no code sets context["topic"],
\* so context.get("topic") is always None
enrich_topic(mem, intent) ==
    IF intent.intent_type = "QUESTION" /\ Truthy(mem.last_topic)
    THEN [intent EXCEPT !.context.previous_topic = mem.last_topic]
    ELSE intent

\* ContextMemory.enrich
enrich(mem, intent) ==
    enrich_topic(mem,
      enrich_delete(mem,
        enrich_search(mem,
          enrich_reference(mem, intent, resolve_reference(mem, intent.target)))))

\* variant of update_history: pop() instead of pop(0), the newest entry goes
update_history_pop_last(history, intent, cap) ==
    IF Len(history) + 1 > cap THEN history ELSE Append(history, intent)

\* update, bounded history (lines 93-95)
update_history(history, intent, cap) ==
    IF Len(history) + 1 > cap THEN Tail(Append(history, intent)) ELSE Append(history, intent)

\* update, last_app (lines 100-106): set on OPEN_APP, then cleared when a
\* SYSTEM_CONTROL action names the remembered app
update_last_app(last_app, intent) ==
    IF intent.action = "OPEN_APP" /\ Truthy(intent.target) THEN intent.target
    ELSE IF intent.action = "SYSTEM_CONTROL" /\ Truthy(intent.target)
            /\ last_app = intent.target THEN None
    ELSE last_app

\* ContextMemory.update with the given cap
update_capped(mem, intent, cap) ==
    [history |-> update_history(mem.history, intent, cap),
     last_app |-> update_last_app(mem.last_app, intent),
     last_file |-> IF intent.action \in {"DELETE", "OPEN_FILE"} /\ Truthy(intent.target)
                   THEN intent.target ELSE mem.last_file,
     last_topic |-> IF intent.intent_type = "QUESTION" THEN intent.text ELSE mem.last_topic]

\* ContextMemory.clear
clear(mem) == [history |-> <<>>, last_app |-> None, last_file |-> None, last_topic |-> None]

\* ContextMemory.update of the FusionEngine's memory (max_history = 20)
update(mem, intent) == update_capped(mem, intent, max_history)

(***************************************************************************)
(* core/safety_engine.py                                                   *)
(***************************************************************************)

\* intent_risk_policy.get(intent_type, 1)
intent_risk_policy(intent_type) ==
    CASE intent_type = "FILE_OPERATION" -> 7
      [] intent_type = "SYSTEM_CONTROL" -> 8
      [] intent_type = "OPEN_APP" -> 2
      [] intent_type = "SEARCH" -> 1
      [] intent_type = "TYPE_TEXT" -> 1
      [] OTHER -> 1

danger_patterns ==
    <<"delete all", "format", "remove system", "shutdown now", "wipe", "all files">>

block_threshold == 9

confirmation_threshold == 6

\* variant of baseline_risk: the policy risk is added to the intent's risk
baseline_risk_added(intent) ==
    [intent EXCEPT !.risk_level = intent.risk_level + intent_risk_policy(intent.intent_type)]

\* evaluate, baseline policy risk (lines 67-68)
baseline_risk(intent) ==
    [intent EXCEPT !.risk_level = Max(intent.risk_level, intent_risk_policy(intent.intent_type))]

\* variant of escalate: a matched pattern adds 8 to the risk
escalate_added(intent, matched) ==
    IF matched = {} THEN intent
    ELSE [intent EXCEPT
            !.risk_level = intent.risk_level + 8,
            !.context.danger_pattern_detected =
                danger_patterns[CHOOSE n \in matched : \A k \in matched : k <= n]]

\* evaluate, the escalation loop (lines 73-76) given the indexes of the
\* patterns found in the text: risk is raised to at least 8 and the context
\* keeps the last pattern the loop met
escalate(intent, matched) ==
    IF matched = {} THEN intent
    ELSE [intent EXCEPT
            !.risk_level = Max(intent.risk_level, 8),
            !.context.danger_pattern_detected =
                danger_patterns[CHOOSE n \in matched : \A k \in matched : k <= n]]

\* variant of threshold_rules: the blocking rule keeps requires_confirmation
threshold_rules_keep_flag(intent) ==
    IF intent.risk_level >= block_threshold
    THEN [intent EXCEPT !.blocked_reason = "Operation blocked due to extreme risk"]
    ELSE IF intent.risk_level >= confirmation_threshold
    THEN [intent EXCEPT !.requires_confirmation = TRUE]
    ELSE intent

\* evaluate, blocking and confirmation rules (lines 81-92)
threshold_rules(intent) ==
    IF intent.risk_level >= block_threshold
    THEN [intent EXCEPT !.blocked_reason = "Operation blocked due to extreme risk",
                        !.requires_confirmation = FALSE]
    ELSE IF intent.risk_level >= confirmation_threshold
    THEN [intent EXCEPT !.requires_confirmation = TRUE]
    ELSE intent

\* variant of evaluate: the DISABLED short-circuit is missing
evaluate_any_mode(intent, current_mode) ==
    threshold_rules(
      escalate(baseline_risk(intent),
               {n \in 1..Len(danger_patterns) :
                  Contains(Lower(intent.text), danger_patterns[n])}))

\* SafetyEngine.evaluate
evaluate(intent, current_mode) ==
    IF current_mode = "DISABLED"
    THEN [intent EXCEPT !.blocked_reason = "Assistant is disabled", !.risk_level = 9]
    ELSE threshold_rules(
           escalate(baseline_risk(intent),
                    {n \in 1..Len(danger_patterns) :
                       Contains(Lower(intent.text), danger_patterns[n])}))

(***************************************************************************)
(* core/mode_manager.py                                                    *)
(* A mode manager is the record [current_mode, previous_mode,              *)
(* transition_history, callbacks, fired, waiting_for_confirmation,         *)
(* pending_intent, confirmation_timestamp]: callbacks[m] is the number of  *)
(* callbacks in the list callbacks[m], fired the modes whose callbacks     *)
(* have run, one entry per callback call.                                  *)
(***************************************************************************)

\* ModeManager.__init__ max_history for the audit history
mode_max_history == 100

\* ModeManager._define_transitions: the (from, to) pairs of the edge list
transitions ==
    { <<"LISTENING", "COMMAND">>, <<"LISTENING", "QUESTION">>,
      <<"LISTENING", "DICTATION">>, <<"LISTENING", "DISABLED">>,
      <<"COMMAND", "LISTENING">>, <<"COMMAND", "DICTATION">>, <<"COMMAND", "DISABLED">>,
      <<"DICTATION", "LISTENING">>, <<"DICTATION", "COMMAND">>, <<"DICTATION", "DISABLED">>,
      <<"QUESTION", "LISTENING">>, <<"QUESTION", "COMMAND">>, <<"QUESTION", "DISABLED">>,
      <<"DISABLED", "LISTENING">> }

\* ModeManager.__init__
NewModeManager ==
    [current_mode |-> "LISTENING", previous_mode |-> "LISTENING",
     transition_history |-> <<>>, callbacks |-> [m \in Modes |-> 0], fired |-> <<>>,
     waiting_for_confirmation |-> FALSE, pending_intent |-> NoIntent,
     confirmation_timestamp |-> 0]

\* variant of _can_transition: the edge list is not consulted
can_transition_any(from_mode, to_mode) == from_mode # to_mode

\* ModeManager._can_transition
can_transition(from_mode, to_mode) ==
    IF from_mode = to_mode THEN FALSE ELSE <<from_mode, to_mode>> \in transitions

\* ModeManager._execute_callbacks: every callback of the mode runs once
RECURSIVE execute_callbacks(_, _, _)
execute_callbacks(fired, mode, n) ==
    IF n = 0 THEN fired ELSE execute_callbacks(Append(fired, mode), mode, n - 1)

\* ModeManager.set_mode: the return value
set_mode_result(mm, new_mode) == can_transition(mm.current_mode, new_mode)

\* set_mode, the audit history (lines 84-87)
append_transition(history, entry) ==
    IF Len(history) + 1 > mode_max_history
    THEN Tail(Append(history, entry)) ELSE Append(history, entry)

\* variant of set_mode: the transition is recorded without the check
set_mode_unchecked(mm, new_mode, reason) ==
    [mm EXCEPT
       !.previous_mode = mm.current_mode,
       !.current_mode = new_mode,
       !.transition_history =
           append_transition(mm.transition_history, <<mm.current_mode, new_mode, reason>>),
       !.fired = execute_callbacks(mm.fired, new_mode, mm.callbacks[new_mode])]

\* ModeManager.set_mode: the manager after the call
set_mode(mm, new_mode, reason) ==
    IF ~can_transition(mm.current_mode, new_mode) THEN mm
    ELSE [mm EXCEPT
            !.previous_mode = mm.current_mode,
            !.current_mode = new_mode,
            !.transition_history =
                append_transition(mm.transition_history, <<mm.current_mode, new_mode, reason>>),
            !.fired = execute_callbacks(mm.fired, new_mode, mm.callbacks[new_mode])]

\* ModeManager.__init__ confirmation_timeout (seconds)
mode_confirmation_timeout == 10

\* ModeManager._enter_confirmation_state at time t
enter_confirmation_state(mm, intent, t) ==
    [mm EXCEPT !.waiting_for_confirmation = TRUE,
               !.pending_intent = intent,
               !.confirmation_timestamp = t]

\* ModeManager._reset_confirmation
reset_confirmation(mm) ==
    [mm EXCEPT !.waiting_for_confirmation = FALSE,
               !.pending_intent = NoIntent,
               !.confirmation_timestamp = 0]

\* ModeManager._handle_confirmation at time t: the manager after the call
\* and the intent returned, NoIntent for None
mode_handle_confirmation(mm, intent, t) ==
    IF t - mm.confirmation_timestamp > mode_confirmation_timeout
    THEN [mm |-> reset_confirmation(mm), result |-> NoIntent]
    ELSE IF Strip(Lower(intent.text)) \in {"yes", "confirm", "do it"}
    THEN [mm |-> reset_confirmation(mm), result |-> mm.pending_intent]
    ELSE IF Strip(Lower(intent.text)) \in {"no", "cancel", "stop"}
    THEN [mm |-> reset_confirmation(mm), result |-> NoIntent]
    ELSE [mm |-> mm, result |-> NoIntent]

\* ModeManager.can_execute_intent
can_execute_intent(mm, intent) ==
    IF intent.intent_type = "UNKNOWN" THEN FALSE
    ELSE IF mm.current_mode = "DISABLED" THEN FALSE
    ELSE IF mm.current_mode = "DICTATION" /\ intent.intent_type # "TYPE_TEXT" THEN FALSE
    ELSE IF mm.current_mode = "QUESTION" /\ intent.intent_type # "QUESTION" THEN FALSE
    ELSE TRUE

\* ModeManager._auto_transition
auto_transition(mm, intent) ==
    IF intent.intent_type = "QUESTION" THEN set_mode(mm, "QUESTION", "question_detected")
    ELSE IF intent.intent_type = "DICTATION"
    THEN set_mode(mm, "DICTATION", "dictation_mode_enabled")
    ELSE set_mode(mm, "COMMAND", "command_detected")

\* handle_intent, lines 67-75: the mode is switched, then the permission is
\* checked in the new mode
handle_checked(mm, intent) ==
    [mm |-> mm,
     result |-> IF ~can_execute_intent(mm, intent)
                THEN [intent EXCEPT !.blocked_reason = "Mode does not allow execution"]
                ELSE intent]

\* ModeManager.handle_intent at time t: the manager after the call and the
\* intent returned, NoIntent for None
mode_handle_intent(mm, intent, t) ==
    IF mm.waiting_for_confirmation THEN mode_handle_confirmation(mm, intent, t)
    ELSE IF intent.requires_confirmation
    THEN [mm |-> enter_confirmation_state(mm, intent, t), result |-> NoIntent]
    ELSE handle_checked(auto_transition(mm, intent), intent)

(***************************************************************************)
(* core/fusion_engine.py                                                   *)
(* A fusion engine is the record [mode_manager, memory,                    *)
(* pending_confirmation, confirmation_timestamp].  A Decision is the       *)
(* record [status, intent, message]; its latency is wall-clock time and is *)
(* left out.  time.time() is the clock value t of the call.                *)
(***************************************************************************)

\* FusionEngine.__init__ confirmation_timeout (seconds)
confirmation_timeout == 10

\* FusionEngine.__init__ intent_confidence_threshold (0.4)
intent_confidence_threshold == 40

\* confirmation_timestamp = None
NoTimestamp == 0

\* no Decision object
NoDecision == [none |-> TRUE]

Decision(status, intent, message) == [status |-> status, intent |-> intent, message |-> message]

\* FusionEngine.__init__
NewFusion ==
    [mode_manager |-> NewModeManager, memory |-> NewMemory,
     pending_confirmation |-> NoIntent, confirmation_timestamp |-> NoTimestamp]

\* FusionEngine._normalize_input
Fusion_normalize_input(text) == RemovePunctuation(Lower(Strip(text)))

\* variant of _confirmation_expired: the timeout is never reached
confirmation_expired_never(f, t) == FALSE

\* FusionEngine._confirmation_expired
confirmation_expired(f, t) ==
    IF f.confirmation_timestamp = NoTimestamp THEN FALSE
    ELSE (t - f.confirmation_timestamp) > confirmation_timeout

\* FusionEngine._clear_confirmation
clear_confirmation(f) ==
    [f EXCEPT !.pending_confirmation = NoIntent, !.confirmation_timestamp = NoTimestamp]

\* the prefixes of a confirm reply
confirm_prefixes == {"yes", "confirm", "proceed", "do it"}

\* the prefixes of a deny reply
deny_prefixes == {"no", "cancel", "stop"}

\* variant of _handle_confirmation: the re-prompt stores no pending intent
handle_confirmation_reprompt_clears(f, text) ==
    IF \E p \in confirm_prefixes : StartsWith(text, p)
    THEN [fusion |-> clear_confirmation(f),
          decision |-> Decision("APPROVED", f.pending_confirmation, "Action confirmed")]
    ELSE IF \E p \in deny_prefixes : StartsWith(text, p)
    THEN [fusion |-> clear_confirmation(f),
          decision |-> Decision("BLOCKED", f.pending_confirmation, "Action cancelled")]
    ELSE [fusion |-> clear_confirmation(f),
          decision |-> Decision("NEEDS_CONFIRMATION", f.pending_confirmation,
                                "Please respond with yes or no")]

\* FusionEngine._handle_confirmation: the engine after the call and the Decision
handle_confirmation(f, text) ==
    IF \E p \in confirm_prefixes : StartsWith(text, p)
    THEN [fusion |-> clear_confirmation(f),
          decision |-> Decision("APPROVED", f.pending_confirmation, "Action confirmed")]
    ELSE IF \E p \in deny_prefixes : StartsWith(text, p)
    THEN [fusion |-> clear_confirmation(f),
          decision |-> Decision("BLOCKED", f.pending_confirmation, "Action cancelled")]
    ELSE [fusion |-> f,
          decision |-> Decision("NEEDS_CONFIRMATION", f.pending_confirmation,
                                "Please respond with yes or no")]

\* _handle_mode_control on the lowered text
mode_control(mm, text) ==
    IF Contains(text, "enter dictation") THEN set_mode(mm, "DICTATION", "dictation_mode_enabled")
    ELSE IF Contains(text, "exit dictation") THEN set_mode(mm, "COMMAND", "exit_dictation")
    ELSE IF Contains(text, "disable") THEN set_mode(mm, "DISABLED", "disable_command")
    ELSE IF Contains(text, "enable") THEN set_mode(mm, "LISTENING", "enable_assistant")
    ELSE mm

\* FusionEngine._handle_mode_control: the mode manager after the call
handle_mode_control(mm, intent) == mode_control(mm, Lower(intent.text))

\* str(x) of an optional string inside an f-string
PyStr(x) == IF x = None THEN "None" ELSE x

\* f"Confirm action: {intent.action} {intent.target}"
confirm_message(intent) == "Confirm action: " \o intent.action \o " " \o PyStr(intent.target)

\* variant of lines 80-108: the requires_confirmation branch is missing
decide_without_confirmation(f, intent, t) ==
    IF Truthy(intent.blocked_reason)
    THEN [fusion |-> f, decision |-> Decision("BLOCKED", intent, intent.blocked_reason)]
    ELSE IF intent.confidence < intent_confidence_threshold /\ intent.action = "UNKNOWN"
    THEN [fusion |-> f, decision |-> Decision("BLOCKED", intent, "Low confidence input")]
    ELSE [fusion |-> f, decision |-> Decision("APPROVED", intent, "Action approved")]

\* the branch of process_text after Safety Engine evaluation (lines 80-108)
decide(f, intent, t) ==
    IF Truthy(intent.blocked_reason)
    THEN [fusion |-> f, decision |-> Decision("BLOCKED", intent, intent.blocked_reason)]
    ELSE IF intent.confidence < intent_confidence_threshold /\ intent.action = "UNKNOWN"
    THEN [fusion |-> f, decision |-> Decision("BLOCKED", intent, "Low confidence input")]
    ELSE IF intent.requires_confirmation
    THEN [fusion |-> [f EXCEPT !.pending_confirmation = intent, !.confirmation_timestamp = t],
          decision |-> Decision("NEEDS_CONFIRMATION", intent, confirm_message(intent))]
    ELSE [fusion |-> f, decision |-> Decision("APPROVED", intent, "Action approved")]

\* process_text from Safety Engine evaluation on (lines 78-108): f is the
\* engine after the memory update.  The Intent that update appended to the
\* history is the object evaluate mutates, so the last history entry shows
\* the evaluated intent.
process_evaluated(f, evaluated, t) ==
    decide([f EXCEPT !.memory.history[Len(f.memory.history)] = evaluated], evaluated, t)

\* process_text from Context Memory enrichment on (lines 75-108): f is the
\* engine after the mode side-effect
process_enriched(f, enriched, t) ==
    process_evaluated([f EXCEPT !.memory = update(f.memory, enriched)],
                      evaluate(enriched, f.mode_manager.current_mode), t)

\* process_text from the parsed intent on (lines 72-108)
process_parsed(f, parsed, t) ==
    process_enriched(
        IF parsed.intent_type = "CONTROL"
        THEN [f EXCEPT !.mode_manager = handle_mode_control(f.mode_manager, parsed)]
        ELSE f,
        enrich(f.memory, parsed), t)

\* process_text on the normalized text (lines 54-108)
process_normalized(f, text, t) ==
    IF f.pending_confirmation # NoIntent
    THEN IF confirmation_expired(f, t)
         THEN [fusion |-> clear_confirmation(f),
               decision |-> Decision("BLOCKED", f.pending_confirmation,
                                     "Confirmation timed out")]
         ELSE handle_confirmation(f, text)
    ELSE process_parsed(f, Parse(text, f.mode_manager.current_mode), t)

\* FusionEngine.process_text at clock value t: the engine after the call and
\* the Decision returned
process_text(f, raw_text, t) == process_normalized(f, Fusion_normalize_input(raw_text), t)

(***************************************************************************)
(* core/response_model.py, execution/executor.py, execution/dispatcher.py, *)
(* router/decision_router.py                                               *)
(* A decision dict is a record whose fields are the keys present in the    *)
(* dict.  What a Windows adapter or the UIA service does is outside the    *)
(* program: its answer is the outcome of the call.                         *)
(***************************************************************************)

\* Decision.to_dict; latency_ms is wall-clock time and is left out
to_dict(d) ==
    [status |-> d.status, action |-> d.intent.action, target |-> d.intent.target,
     risk_level |-> d.intent.risk_level,
     requires_confirmation |-> d.intent.requires_confirmation,
     blocked_reason |-> d.intent.blocked_reason, message |-> d.message]

\* a value that is not a dict
NotADict == [not_a_dict |-> TRUE]

\* dict.get(key, default)
Get(d, key, default) == IF key \in DOMAIN d THEN d[key] ELSE default

\* no UnifiedResponse object
NoResponse == [none |-> TRUE]

\* UnifiedResponse.error_response
error_response(category, spoken_message, error_code) ==
    [success |-> FALSE, category |-> category,
     spoken_message |-> spoken_message, error_code |-> error_code]

\* UnifiedResponse.success_response
success_response(category, spoken_message) ==
    [success |-> TRUE, category |-> category,
     spoken_message |-> spoken_message, error_code |-> None]

\* DecisionRouter.EXECUTION_ACTIONS
EXECUTION_ACTIONS ==
    {"OPEN_APP", "SEARCH", "TYPE_TEXT", "FILE_OPERATION", "SYSTEM_CONTROL", "VISION"}

\* the actions ExecutionEngine.execute hands to the UIA client
UIA_ACTIONS == {"READ_SCREEN", "CLICK_INDEX", "CLICK_NAME"}

\* what an adapter or the UIA service answers
AdapterOutcomes == {"success", "failure"}

\* variant of the validation of execute: the confirmation check is left out
validation_error_unconfirmed(decision) ==
    IF "not_a_dict" \in DOMAIN decision THEN "INVALID_DECISION"
    ELSE IF Get(decision, "status", None) # "APPROVED" THEN "NOT_APPROVED"
    ELSE IF Truthy(Get(decision, "blocked_reason", None)) THEN "BLOCKED_BY_SAFETY"
    ELSE IF ~Truthy(Get(decision, "action", None)) THEN "MISSING_ACTION"
    ELSE None

\* ExecutionEngine.execute, basic and risk validation: the error code the
\* decision is refused with, None when it passes
validation_error(decision) ==
    IF "not_a_dict" \in DOMAIN decision THEN "INVALID_DECISION"
    ELSE IF Get(decision, "status", None) # "APPROVED" THEN "NOT_APPROVED"
    ELSE IF Truthy(Get(decision, "blocked_reason", None)) THEN "BLOCKED_BY_SAFETY"
    ELSE IF ~Truthy(Get(decision, "action", None)) THEN "MISSING_ACTION"
    ELSE IF (Get(decision, "requires_confirmation", FALSE)
             \/ Get(decision, "risk_level", 0) >= 7)
            /\ ~Get(decision, "confirmed", FALSE)
    THEN "CONFIRMATION_REQUIRED"
    ELSE None

\* the spoken message execute gives with a validation error code
validation_message(error_code) ==
    CASE error_code = "INVALID_DECISION" -> "Invalid execution request."
      [] error_code = "NOT_APPROVED" -> "Execution blocked."
      [] error_code = "BLOCKED_BY_SAFETY" -> "Blocked by safety system."
      [] error_code = "MISSING_ACTION" -> "No executable action found."
      [] error_code = "CONFIRMATION_REQUIRED" -> "Execution requires confirmation."

\* the UIA handlers of execute: a click needs its parameter to reach the
\* service; the service answers with the outcome, and the text it answers
\* with is written "UIA message"
uia_call(decision, outcome) ==
    IF decision.action = "CLICK_INDEX" /\ Get(Get(decision, "parameters", NoParameters), "index", NoIndex) = NoIndex
    THEN [dispatched |-> FALSE, response |-> error_response("execution", "Invalid selection number.", "INVALID_INDEX")]
    ELSE IF decision.action = "CLICK_NAME" /\ ~Truthy(Get(Get(decision, "parameters", NoParameters), "name", None))
    THEN [dispatched |-> FALSE, response |-> error_response("execution", "Invalid element name.", "INVALID_NAME")]
    ELSE [dispatched |-> TRUE,
          response |-> IF outcome = "success"
                       THEN success_response("execution", "UIA message")
                       ELSE error_response("execution", "UIA message",
                                           IF decision.action = "READ_SCREEN"
                                           THEN "UIA_ERROR" ELSE "CLICK_FAILED")]

\* Dispatcher.dispatch: the response of the adapter the action belongs to,
\* its text written "adapter message"
dispatch(decision, outcome) ==
    IF decision.action \in EXECUTION_ACTIONS
    THEN [dispatched |-> TRUE,
          response |-> IF outcome = "success"
                       THEN success_response("execution", "adapter message")
                       ELSE error_response("execution", "adapter message", "ADAPTER_ERROR")]
    ELSE [dispatched |-> FALSE,
          response |-> error_response("execution", "Unsupported execution action.",
                                      "UNSUPPORTED_ACTION")]

\* ExecutionEngine._update_context on the shared ContextMemory
update_context(mem, decision) ==
    IF decision.action = "OPEN_APP" /\ Truthy(Get(decision, "target", None))
    THEN [mem EXCEPT !.last_app = decision.target]
    ELSE IF decision.action = "SYSTEM_CONTROL" /\ Truthy(Get(decision, "target", None))
    THEN [mem EXCEPT !.last_app = IF mem.last_app = decision.target THEN None ELSE @]
    ELSE IF decision.action = "FILE_OPERATION" /\ Truthy(Get(decision, "target", None))
    THEN [mem EXCEPT !.last_file = decision.target]
    ELSE mem

\* execute after validation (lines 59-88): r is the answer of the UIA
\* handler or of the dispatcher
execute_validated(mem, decision, r) ==
    [memory |-> IF r.dispatched /\ r.response.success /\ decision.action \notin UIA_ACTIONS
                THEN update_context(mem, decision) ELSE mem,
     dispatched |-> r.dispatched, response |-> r.response]

\* ExecutionEngine.execute: the ContextMemory after the call, whether the
\* decision went to an adapter or to the UIA service, and the response
execute(mem, decision, outcome) ==
    IF validation_error(decision) # None
    THEN [memory |-> mem, dispatched |-> FALSE,
          response |-> error_response("execution",
                                      validation_message(validation_error(decision)),
                                      validation_error(decision))]
    ELSE execute_validated(mem, decision,
                           IF decision.action \in UIA_ACTIONS
                           THEN uia_call(decision, outcome)
                           ELSE dispatch(decision, outcome))

\* DecisionRouter.route.  The utility and knowledge engines answer without
\* touching the state kept here.
route(mem, decision, outcome) ==
    IF "not_a_dict" \in DOMAIN decision
    THEN [memory |-> mem, dispatched |-> FALSE,
          response |-> error_response("router", "No decision received.", "NO_DECISION")]
    ELSE IF Get(decision, "status", None) # "APPROVED"
    THEN [memory |-> mem, dispatched |-> FALSE,
          response |-> error_response("router", "The action was not approved.",
                                      "ACTION_NOT_APPROVED")]
    ELSE IF Get(decision, "action", None) \in EXECUTION_ACTIONS
    THEN execute(mem, decision, outcome)
    ELSE IF Get(decision, "action", None) \in {"CALCULATE", "GET_TIME", "KNOWLEDGE_QUERY"}
    THEN [memory |-> mem, dispatched |-> FALSE,
          response |-> IF outcome = "success"
                       THEN success_response("engine", "engine message")
                       ELSE error_response("engine", "engine message", "ENGINE_ERROR")]
    ELSE [memory |-> mem, dispatched |-> FALSE,
          response |-> error_response("router", "Unsupported action type.",
                                      "UNSUPPORTED_ACTION_TYPE")]

(***************************************************************************)
(* voice/assistant_runtime.py, voice/tts.py                                *)
(* A runtime is the record [running, state, awaiting_confirmation,         *)
(* pending_intent, interrupted]; a TTS is the record [queue, current],     *)
(* current being the text of the running speech process.                   *)
(***************************************************************************)

\* AssistantRuntime.__init__; pending_intent None is NotADict
NewRuntime ==
    [running |-> TRUE, state |-> "LISTENING", awaiting_confirmation |-> FALSE,
     pending_intent |-> NotADict, interrupted |-> FALSE]

\* TTS.__init__
NewTTS == [queue |-> <<>>, current |-> None]

\* TTS.speak
speak(tts, text) == IF Truthy(text) THEN [tts EXCEPT !.queue = Append(@, text)] ELSE tts

(***************************************************************************)
(* State                                                                   *)
(***************************************************************************)

VARIABLES
    fusion,       \* the FusionEngine; its memory is the shared ContextMemory
    now,          \* time.time(), in seconds
    decision,     \* the Decision the last process_text call returned
    call_texts,   \* the texts passed to process_text so far, in call order
    runtime,      \* the AssistantRuntime
    tts,          \* the TTS
    text_queue,   \* VoiceLoop.text_queue
    heard,        \* the number of utterances the STT has transcribed
    routed,       \* the decision dicts passed to DecisionRouter.route, in order
    dispatched,   \* the decision dicts handed to an adapter or the UIA service
    response,     \* the UnifiedResponse of the last route or execute call
    returned,     \* the last set_mode call and what it returned
    request,      \* the argument of the last ExecutionEngine.execute call made directly
    built,        \* the last Intent(...) constructor call made directly: its object or its error
    evaluated,    \* the last SafetyEngine.evaluate call made directly on that object
    memory,       \* a ContextMemory(max_history = MemoryCap) used directly
    updates,      \* the intents passed to memory.update since it was built or cleared
    enriched,     \* what the last memory.enrich call made directly returned
    workers,      \* where each of the three worker threads of the VoiceLoop is
    audio_queue,  \* VoiceLoop.audio_queue; a segment is written as its transcript
    stt_item,     \* the segment _stt_worker has dequeued and is transcribing
    emitted,      \* the segments _mic_worker has put on audio_queue, in order
    decided,      \* the texts _intent_worker has dequeued, in order
    failures,     \* the exceptions caught so far in each worker
    lock,         \* the thread that holds memory.lock, or None
    in_call,      \* for each thread, the call it is making inside `with self.lock`
    access,       \* the last access to the fields of memory: who made it, holding what
    waited,       \* the time _stt_worker has waited for the speech to end, in sleeps of 0.05 s
    captured,     \* the number of frames _mic_worker has read
    buffer,       \* VoiceLoop.buffer; a frame is written as its number in capture order
    silence_frames, \* VoiceLoop.silence_frames
    segments      \* the segments _mic_worker has put on audio_queue, each as its frames

fusion_vars == <<fusion, now, decision, call_texts>>

voice_vars == <<runtime, tts, text_queue, heard, routed>>

exec_vars == <<dispatched, response>>

lock_vars == <<lock, in_call, access>>

unit_vars == <<built, evaluated, memory, updates, enriched, lock_vars>>

pipe_vars == <<workers, audio_queue, stt_item, waited, emitted, decided, failures>>

mic_vars == <<captured, buffer, silence_frames, segments>>

vars == <<fusion, now, decision, call_texts, runtime, tts, text_queue, heard,
          routed, dispatched, response, returned, request,
          built, evaluated, memory, updates, enriched,
          workers, audio_queue, stt_item, waited, emitted, decided, failures,
          lock, in_call, access, captured, buffer, silence_frames, segments>>

(***************************************************************************)
(* Bounds and inputs                                                       *)
(***************************************************************************)

\* process_text calls in one run
MaxCalls == 3

\* the clock stops at MaxTime
MaxTime == 23

\* the clock advances by exactly the confirmation timeout or by one second more
TickSteps == {confirmation_timeout, confirmation_timeout + 1}

\* the utterances given to process_text
FusionTexts ==
    {"delete report.pdf", "yes", "no", "Yes!", "open chrome",
     "shutdown now", "click disable", "click enable"}

\* no call yet
NoCall == [none |-> TRUE]

\* no execute call yet
NoRequest == [none |-> TRUE]

\* the threads that use the shared ContextMemory
Threads == {"t1", "t2"}

\* the state after construction of the VoiceLoop and its parts
Init ==
    /\ fusion = NewFusion
    /\ now = 1
    /\ decision = NoDecision
    /\ call_texts = <<>>
    /\ runtime = NewRuntime
    /\ tts = NewTTS
    /\ text_queue = <<>>
    /\ heard = 0
    /\ routed = <<>>
    /\ dispatched = <<>>
    /\ response = NoResponse
    /\ returned = NoCall
    /\ request = NoRequest
    /\ built = NoCall
    /\ evaluated = NoCall
    /\ memory = NewMemory
    /\ updates = <<>>
    /\ enriched = NoIntent
    /\ workers = [mic |-> "head", stt |-> "head", intent |-> "head"]
    /\ audio_queue = <<>>
    /\ stt_item = None
    /\ emitted = <<>>
    /\ decided = <<>>
    /\ failures = [mic |-> 0, stt |-> 0, intent |-> 0]
    /\ lock = None
    /\ in_call = [t \in Threads |-> NoCall]
    /\ access = NoCall
    /\ waited = 0
    /\ captured = 0
    /\ buffer = <<>>
    /\ silence_frames = 0
    /\ segments = <<>>

(***************************************************************************)
(* FusionEngine driven directly (test_phase2_pipeline.py)                  *)
(***************************************************************************)

\* one FusionEngine.process_text call
ProcessText(text) ==
    /\ Len(call_texts) < MaxCalls
    /\ fusion' = process_text(fusion, text, now).fusion
    /\ decision' = process_text(fusion, text, now).decision
    /\ call_texts' = Append(call_texts, text)
    /\ UNCHANGED <<mic_vars, unit_vars, pipe_vars, now, voice_vars, exec_vars, returned, request>>

\* wall-clock time passes
Tick(d) ==
    /\ now + d <= MaxTime
    /\ now' = now + d
    /\ UNCHANGED <<mic_vars, unit_vars, pipe_vars, fusion, decision, call_texts, voice_vars, exec_vars, returned, request>>

NextFusion ==
    \/ \E text \in FusionTexts : ProcessText(text)
    \/ \E d \in TickSteps : Tick(d)

SpecFusion == Init /\ [][NextFusion]_vars

(***************************************************************************)
(* Properties of the FusionEngine (SpecFusion)                             *)
(***************************************************************************)

\* the step is a process_text call
IsCall == call_texts' # call_texts

\* the text of the call, as process_text normalizes it
CallText == Fusion_normalize_input(call_texts'[Len(call_texts')])

\* C1: a process_text call returns APPROVED with an intent that requires
\* confirmation only if it found that intent stored as pending_confirmation,
\* not expired, and its text starts with yes / confirm / proceed / do it; a
\* call that parses a command (nothing pending) never returns such a Decision.
C1_ApprovedOnlyByConfirmation ==
    [][ (IsCall /\ decision'.status = "APPROVED" /\ decision'.intent.requires_confirmation)
        => /\ fusion.pending_confirmation # NoIntent
           /\ fusion.pending_confirmation = decision'.intent
           /\ now - fusion.confirmation_timestamp <= confirmation_timeout
           /\ \E p \in {"yes", "confirm", "proceed", "do it"} : StartsWith(CallText, p) ]_vars

\* a confirmable intent has been approved
C1_Witness ==
    /\ decision # NoDecision
    /\ decision.status = "APPROVED"
    /\ decision.intent.requires_confirmation

\* C3: on a fresh engine "delete report.pdf" returns NEEDS_CONFIRMATION; a
\* following "yes" returns APPROVED with that delete intent (action
\* FILE_OPERATION or DELETE, target report.pdf) and nothing stays pending; a
\* following "no" returns BLOCKED and nothing stays pending.  The replies are
\* given within the confirmation timeout.
C3_Handshake ==
    /\ call_texts = <<"delete report.pdf">>
         => decision.status = "NEEDS_CONFIRMATION"
    /\ (call_texts = <<"delete report.pdf", "yes">> /\ now <= 1 + confirmation_timeout)
         => /\ decision.status = "APPROVED"
            /\ decision.intent.action \in {"FILE_OPERATION", "DELETE"}
            /\ decision.intent.target = "report.pdf"
            /\ fusion.pending_confirmation = NoIntent
    /\ (call_texts = <<"delete report.pdf", "no">> /\ now <= 1 + confirmation_timeout)
         => /\ decision.status = "BLOCKED"
            /\ fusion.pending_confirmation = NoIntent

\* C4: a call made while a confirmation is pending and more than
\* confirmation_timeout seconds old returns BLOCKED "Confirmation timed out"
\* whatever its text and clears the pending state; an intent is never approved
\* by a confirmation that comes after its timeout.
C4_TimeoutBlocks ==
    [][ IsCall =>
        /\ (fusion.pending_confirmation # NoIntent
              /\ now - fusion.confirmation_timestamp > confirmation_timeout)
             => /\ decision'.status = "BLOCKED"
                /\ decision'.message = "Confirmation timed out"
                /\ decision'.intent = fusion.pending_confirmation
                /\ fusion'.pending_confirmation = NoIntent
                /\ fusion'.confirmation_timestamp = NoTimestamp
        /\ (fusion.pending_confirmation # NoIntent
              /\ decision'.status = "APPROVED"
              /\ decision'.intent = fusion.pending_confirmation)
             => now - fusion.confirmation_timestamp <= confirmation_timeout ]_vars

\* a "yes" that came after the timeout was answered with the timeout Decision
C4_Witness ==
    /\ decision # NoDecision
    /\ decision.message = "Confirmation timed out"
    /\ Fusion_normalize_input(call_texts[Len(call_texts)]) = "yes"
    /\ fusion.pending_confirmation = NoIntent

\* C11: a process_text call that returns while the mode is DISABLED returns
\* neither APPROVED nor NEEDS_CONFIRMATION; when it got as far as the Safety
\* Engine (nothing was pending) it returns BLOCKED with reason "Assistant is
\* disabled" and risk_level 9; and no confirmation is pending in a state
\* whose mode is DISABLED.
C11_DisabledBlocksEverything ==
    /\ [][ (IsCall /\ fusion'.mode_manager.current_mode = "DISABLED")
           => /\ decision'.status \notin {"APPROVED", "NEEDS_CONFIRMATION"}
              /\ fusion.pending_confirmation = NoIntent
                   => /\ decision'.status = "BLOCKED"
                      /\ decision'.message = "Assistant is disabled"
                      /\ decision'.intent.blocked_reason = "Assistant is disabled"
                      /\ decision'.intent.risk_level = 9 ]_vars
    /\ [](fusion.mode_manager.current_mode = "DISABLED"
            => fusion.pending_confirmation = NoIntent)

\* a command that would need a confirmation was given in DISABLED mode
C11_Witness ==
    /\ Len(call_texts) >= 2
    /\ call_texts[Len(call_texts)] = "delete report.pdf"
    /\ fusion.mode_manager.current_mode = "DISABLED"
    /\ decision.status = "BLOCKED"
    /\ decision.intent.requires_confirmation

\* C18: the Intent that parse returns for the text of the last call, and the
\* Intent carried by the Decision the call returned (after enrich and
\* evaluate changed it), have 0.0 <= confidence <= 1.0 and 0 <= risk_level <= 9.
C18_IntentRanges ==
    [](call_texts # <<>>
         => \A i \in {Parse(call_texts[Len(call_texts)], fusion.mode_manager.current_mode)}
                       \cup (IF decision.intent # NoIntent THEN {decision.intent} ELSE {}) :
              /\ 0 <= i.confidence /\ i.confidence <= 100
              /\ 0 <= i.risk_level /\ i.risk_level <= 9)

\* a command parsed with risk below 9 left evaluate, in DISABLED mode, with
\* risk 9
C18_Witness ==
    /\ call_texts # <<>>
    /\ call_texts[Len(call_texts)] = "delete report.pdf"
    /\ Parse("delete report.pdf", fusion.mode_manager.current_mode).risk_level = 8
    /\ decision.intent # NoIntent
    /\ decision.intent.risk_level = 9
    /\ decision.intent.confidence = 85

(***************************************************************************)
(* FusionEngine driven by single utterances: the mode-control phrases of   *)
(* _handle_mode_control, UI commands that carry the same phrases, and the  *)
(* commands of the pipeline script                                         *)
(***************************************************************************)

\* the utterances given to process_text
UtteranceTexts ==
    {"enter dictation", "exit dictation", "disable assistant", "enable assistant",
     "click disable", "click enable", "press enter dictation", "press exit dictation",
     "delete all files in system", "delete report.pdf", "open chrome"}

NextUtterance == \E text \in UtteranceTexts : ProcessText(text)

SpecUtterance == Init /\ [][NextUtterance]_vars

\* C12: a process_text call made while nothing is pending, whose utterance is
\* "enter dictation", "exit dictation", "disable assistant" or "enable
\* assistant", leaves the Mode Manager in DICTATION, COMMAND, DISABLED or
\* LISTENING respectively whenever the edge table has the edge from the mode
\* the call found.
C12_ModeControlUtterances ==
    [][ (IsCall /\ fusion.pending_confirmation = NoIntent)
        => \A u \in { <<"enter dictation", "DICTATION">>, <<"exit dictation", "COMMAND">>,
                      <<"disable assistant", "DISABLED">>, <<"enable assistant", "LISTENING">> } :
             (CallText = u[1] /\ <<fusion.mode_manager.current_mode, u[2]>> \in transitions)
             => fusion'.mode_manager.current_mode = u[2] ]_vars

\* C16: a process_text call on "delete all files in system", made while
\* nothing is pending, returns a Decision whose intent has risk_level >= 8 and
\* a blocked_reason that is not None.
C16_BulkDeleteBlocked ==
    [][ (IsCall /\ fusion.pending_confirmation = NoIntent
         /\ CallText = "delete all files in system")
        => /\ decision'.intent.risk_level >= 8
           /\ decision'.intent.blocked_reason # None ]_vars

\* C17: the first process_text call of a new engine, on "open chrome", returns
\* APPROVED with risk_level 1 and requires_confirmation false.
C17_OpenChromeRiskOne ==
    [][ (IsCall /\ call_texts = <<>> /\ CallText = "open chrome")
        => /\ decision'.status = "APPROVED"
           /\ decision'.intent.risk_level = 1
           /\ ~decision'.intent.requires_confirmation ]_vars

\* C23: a process_text call that finds the Mode Manager in DICTATION and
\* nothing pending passes DICTATION to parse, and parse returns an intent of
\* type DICTATION whose text is the whole normalized text.
C23_DictationOverride ==
    [][ (IsCall /\ fusion.pending_confirmation = NoIntent
         /\ fusion.mode_manager.current_mode = "DICTATION")
        => /\ Parse(CallText, "DICTATION").intent_type = "DICTATION"
           /\ Parse(CallText, "DICTATION").text = Parser_normalize(CallText)
           /\ decision'.intent.intent_type = "DICTATION" ]_vars

\* C27: a process_text call on a command that needs confirmation, made while
\* another intent is pending, leaves the new command's intent as the pending
\* confirmation.
C27_NewCommandOverwritesPending ==
    [][ (/\ IsCall
         /\ fusion.pending_confirmation # NoIntent
         /\ evaluate(Parse(CallText, fusion.mode_manager.current_mode),
                     fusion.mode_manager.current_mode).requires_confirmation)
        => /\ fusion'.pending_confirmation # NoIntent
           /\ fusion'.pending_confirmation.text
                = Parse(CallText, fusion.mode_manager.current_mode).text ]_vars

\* C32: a process_text call that finds a confirmation pending and not expired,
\* with a text that starts with none of the confirm and deny prefixes, returns
\* NEEDS_CONFIRMATION with the pending intent and leaves the whole engine as
\* it was: pending_confirmation, confirmation_timestamp, the mode manager and
\* the Context Memory.
C32_RepromptChangesNothing ==
    [][ (/\ IsCall
         /\ fusion.pending_confirmation # NoIntent
         /\ now - fusion.confirmation_timestamp <= confirmation_timeout
         /\ ~\E p \in confirm_prefixes \cup deny_prefixes : StartsWith(CallText, p))
        => /\ decision'.status = "NEEDS_CONFIRMATION"
           /\ decision'.intent = fusion.pending_confirmation
           /\ fusion' = fusion ]_vars

\* "click disable", which parsed would switch the mode off, was given while
\* the delete was pending: the engine re-prompted and is still LISTENING
C32_Witness ==
    /\ Len(call_texts) = 2
    /\ call_texts[2] = "click disable"
    /\ decision.status = "NEEDS_CONFIRMATION"
    /\ decision.message = "Please respond with yes or no"
    /\ fusion.pending_confirmation = decision.intent
    /\ fusion.confirmation_timestamp = 1
    /\ now > 1
    /\ fusion.mode_manager.current_mode = "LISTENING"
    /\ Len(fusion.memory.history) = 1

(***************************************************************************)
(* voice/voice_loop.py                                                     *)
(* The objects one pass of the decision worker reads and writes travel as  *)
(* the record [fusion, decision, runtime, tts, routed, dispatched,         *)
(* response].                                                              *)
(***************************************************************************)

\* utterances transcribed in one run
MaxHeard == 4

\* transcripts waiting in text_queue
MaxQueue == 2

\* the transcripts the STT produces
VoiceTexts == {"delete report.pdf", "Yes", "no", "exit", "stop", "open chrome"}

\* _stt_worker: whether a transcript (stripped) is put on text_queue
stt_forwards(text) ==
    \/ Lower(text) \in {"yes", "y", "confirm", "no", "n", "cancel"}
    \/ ~(Len(Split(text)) <= 1 /\ Lower(text) \notin {"stop", "exit"})

\* the objects of the VoiceLoop
Objects ==
    [fusion |-> fusion, decision |-> decision, runtime |-> runtime, tts |-> tts,
     routed |-> routed, dispatched |-> dispatched, response |-> response]

\* AssistantRuntime.clear_confirmation
runtime_clear_confirmation(rt) ==
    [rt EXCEPT !.pending_intent = NotADict, !.awaiting_confirmation = FALSE]

\* the end of _handle_intent (lines 274-283) and of _execute_confirmed
\* (lines 301-310): start_execution, router.route with answer r,
\* finish_execution, the response spoken
routed_and_spoken(v, decision_dict, r) ==
    [v EXCEPT !.fusion.memory = r.memory,
              !.routed = Append(@, decision_dict),
              !.dispatched = IF r.dispatched THEN Append(@, decision_dict) ELSE @,
              !.response = r.response,
              !.runtime.state = "LISTENING",
              !.tts = speak(@, r.response.spoken_message)]

\* _execute_confirmed given the confirmed copy of the pending dict
route_confirmed(v, confirmed_decision, outcome) ==
    routed_and_spoken(v, confirmed_decision,
                      route(v.fusion.memory, confirmed_decision, outcome))

\* VoiceLoop._execute_confirmed
execute_confirmed(v, decision_dict, outcome) ==
    IF decision_dict = NotADict
    THEN [v EXCEPT !.tts = speak(@, "No pending action.")]
    ELSE route_confirmed(v, ("confirmed" :> TRUE) @@ [decision_dict EXCEPT !.status = "APPROVED"],
                         outcome)

\* _handle_intent from the decision dict on (lines 250-283)
handle_decision(v, decision_dict, outcome) ==
    IF decision_dict.status = "BLOCKED"
    THEN IF decision_dict.message = "Low confidence input" THEN v
         ELSE [v EXCEPT !.tts = speak(@, PyOr(decision_dict.message, "Action blocked."))]
    ELSE IF decision_dict.status = "NEEDS_CONFIRMATION"
    THEN [v EXCEPT !.runtime.pending_intent = decision_dict,
                   !.runtime.awaiting_confirmation = TRUE,
                   !.tts = speak(@, PyOr(decision_dict.message, "Please confirm."))]
    ELSE IF decision_dict.status = "APPROVED"
    THEN routed_and_spoken(v, decision_dict, route(v.fusion.memory, decision_dict, outcome))
    ELSE v

\* _handle_intent given what process_text returned
handle_result(v, r, outcome) ==
    handle_decision([v EXCEPT !.fusion = r.fusion, !.decision = r.decision],
                    to_dict(r.decision), outcome)

\* VoiceLoop._handle_intent
handle_intent(v, text, t, outcome) ==
    handle_result(v, process_text(v.fusion, text, t), outcome)

\* one pass of the loop of _intent_worker on the dequeued text, lowered and
\* stripped (lines 180-236)
intent_item(v, text, t, outcome) ==
    IF v.runtime.awaiting_confirmation
    THEN IF text \in {"yes", "y", "confirm"}
         THEN [execute_confirmed(v, v.runtime.pending_intent, outcome)
                 EXCEPT !.runtime = runtime_clear_confirmation(@)]
         ELSE IF text \in {"no", "n", "cancel"}
         THEN [v EXCEPT !.tts = speak(@, "Action cancelled."),
                        !.runtime = runtime_clear_confirmation(@)]
         ELSE v
    ELSE IF Contains(text, "exit") \/ Contains(text, "quit")
    THEN [v EXCEPT !.tts = speak(@, "Shutting down assistant."),
                   !.runtime.state = "SHUTTING_DOWN",
                   !.runtime.running = FALSE]
    ELSE IF text \in {"hello", "hi"}
    THEN [v EXCEPT !.tts = speak(@, "Hello! How can I help you?")]
    ELSE IF text \in {"thank you", "thanks"}
    THEN [v EXCEPT !.tts = speak(@, "You're welcome.")]
    ELSE IF text \in {"stop", "cancel", "abort"}
    THEN [v EXCEPT !.tts = NewTTS, !.runtime.state = "LISTENING"]
    ELSE IF text = "stop camera"
    THEN v
    ELSE handle_intent(v, text, t, outcome)

\* _stt_worker: an utterance is transcribed and, unless it is noise, queued
Hear(text) ==
    /\ runtime.running
    /\ heard < MaxHeard
    /\ Len(text_queue) < MaxQueue
    /\ heard' = heard + 1
    /\ text_queue' = IF stt_forwards(Strip(text))
                     THEN Append(text_queue, Strip(text)) ELSE text_queue
    /\ UNCHANGED <<mic_vars, unit_vars, pipe_vars, fusion, now, decision, call_texts, runtime, tts, routed,
                   exec_vars, returned, request>>

\* one pass of the loop body of _intent_worker: a text is dequeued and handled
IntentPass(outcome) ==
    /\ text_queue # <<>>
    /\ text_queue' = Tail(text_queue)
    /\ \E v \in {intent_item(Objects, Strip(Lower(Head(text_queue))), now, outcome)} :
         /\ fusion' = v.fusion
         /\ decision' = v.decision
         /\ runtime' = v.runtime
         /\ tts' = v.tts
         /\ routed' = v.routed
         /\ dispatched' = v.dispatched
         /\ response' = v.response
    /\ UNCHANGED <<mic_vars, unit_vars, now, call_texts, heard, returned, request>>

\* _intent_worker: the loop test and one pass, with the other workers at rest
IntentStep(outcome) ==
    /\ runtime.running
    /\ IntentPass(outcome)
    /\ UNCHANGED pipe_vars

\* TTS._run_loop: the next queued text starts playing
TtsStart ==
    /\ tts.queue # <<>>
    /\ tts.current = None
    /\ tts' = [queue |-> Tail(tts.queue), current |-> Head(tts.queue)]
    /\ runtime' = [runtime EXCEPT !.state = "SPEAKING"]
    /\ UNCHANGED <<mic_vars, unit_vars, pipe_vars, fusion_vars, text_queue, heard, routed, exec_vars, returned, request>>

\* TTS._run_loop: the speech process ends
TtsFinish ==
    /\ tts.current # None
    /\ tts' = [tts EXCEPT !.current = None]
    /\ runtime' = [runtime EXCEPT !.state = "LISTENING"]
    /\ UNCHANGED <<mic_vars, unit_vars, pipe_vars, fusion_vars, text_queue, heard, routed, exec_vars, returned, request>>

NextVoice ==
    \/ \E text \in VoiceTexts : Hear(text)
    \/ \E outcome \in AdapterOutcomes : IntentStep(outcome)
    \/ TtsStart
    \/ TtsFinish
    \/ Tick(confirmation_timeout + 1)

SpecVoice == Init /\ [][NextVoice]_vars

(***************************************************************************)
(* Properties of the Voice Loop (SpecVoice)                                *)
(***************************************************************************)

\* the step is one pass of the decision worker
IsItem == text_queue # <<>> /\ text_queue' = Tail(text_queue)

\* the text of the pass, as _intent_worker lowers and strips it
ItemText == Strip(Lower(Head(text_queue)))

\* C2: when the decision worker handles no / n / cancel while a confirmation
\* is pending, nothing stays pending afterwards, neither in the runtime nor
\* in the FusionEngine; and a decision routed by a pass that found no
\* confirmation pending in the runtime is the decision for the command of
\* that very pass, so that no later utterance revives a declined action.
C2_DeclineClearsPending ==
    /\ [][ (IsItem /\ runtime.awaiting_confirmation /\ ItemText \in {"no", "n", "cancel"})
           => /\ ~runtime'.awaiting_confirmation
              /\ runtime'.pending_intent = NotADict
              /\ fusion'.pending_confirmation = NoIntent
              /\ routed' = routed ]_vars
    /\ [][ (IsItem /\ ~runtime.awaiting_confirmation /\ routed' # routed)
           => routed'[Len(routed')].action
                = Parse(Fusion_normalize_input(ItemText), "COMMAND").action ]_vars

\* C5: a pass of the decision worker that finds a confirmation pending for
\* longer than the confirmation timeout routes nothing and leaves no
\* confirmation pending.
C5_LateReplyNotRouted ==
    [][ (IsItem /\ runtime.awaiting_confirmation
         /\ now - fusion.confirmation_timestamp > confirmation_timeout)
        => /\ routed' = routed
           /\ ~runtime'.awaiting_confirmation
           /\ fusion'.pending_confirmation = NoIntent ]_vars

\* C6: between passes of the decision worker runtime.awaiting_confirmation is
\* true exactly when FusionEngine.pending_confirmation is set, and
\* runtime.pending_intent is the dict of that intent.
C6_RuntimeMirrorsFusion ==
    /\ runtime.awaiting_confirmation <=> fusion.pending_confirmation # NoIntent
    /\ runtime.awaiting_confirmation
         => /\ runtime.pending_intent.action = fusion.pending_confirmation.action
            /\ runtime.pending_intent.target = fusion.pending_confirmation.target

\* C8: a pass on a text that holds exit or quit stops the runtime, and a pass
\* on stop empties the speech output, both without a call of the
\* FusionEngine, whether or not a confirmation is pending.
C8_InterruptsFirst ==
    [][ IsItem
        => /\ (Contains(ItemText, "exit") \/ Contains(ItemText, "quit"))
                => (~runtime'.running /\ fusion' = fusion)
           /\ ItemText = "stop"
                => (tts'.queue = <<>> /\ tts'.current = None /\ fusion' = fusion) ]_vars

\* C28: once a confirmed action has been sent to the router, a pass of the
\* decision worker on any utterance other than that command, finding no
\* confirmation awaited, neither sets that action as the pending prompt again
\* nor routes it again.
C28_ConfirmedRoutedOnce ==
    [][ (IsItem /\ ~runtime.awaiting_confirmation)
        => \A cmd \in {Parse(Fusion_normalize_input(ItemText), "COMMAND")} :
             \A k \in 1..Len(routed) :
               (/\ "confirmed" \in DOMAIN routed[k]
                /\ ~(cmd.action = routed[k].action /\ cmd.target = routed[k].target))
               => /\ ~(/\ runtime'.awaiting_confirmation
                       /\ runtime'.pending_intent.action = routed[k].action
                       /\ runtime'.pending_intent.target = routed[k].target)
                  /\ ~(/\ routed' # routed
                       /\ routed'[Len(routed')].action = routed[k].action
                       /\ routed'[Len(routed')].target = routed[k].target) ]_vars

\* C29: a pass of the decision worker on a reply, while the runtime awaits a
\* confirmation that the FusionEngine holds pending and that has not expired,
\* approves (routes the pending action) exactly when _handle_confirmation
\* approves that text, and denies (stops awaiting, routes nothing) exactly
\* when _handle_confirmation cancels.
C29_ReplyResolvedAlike ==
    [][ (/\ IsItem
         /\ runtime.awaiting_confirmation
         /\ fusion.pending_confirmation # NoIntent
         /\ ~confirmation_expired(fusion, now))
        => \A d \in {handle_confirmation(fusion, Fusion_normalize_input(ItemText)).decision} :
             /\ d.status = "APPROVED" <=> routed' # routed
             /\ d.status = "BLOCKED"
                  <=> (~runtime'.awaiting_confirmation /\ routed' = routed) ]_vars

\* C30: while the speech worker is playing an utterance, the runtime state is
\* SPEAKING, so that is_speaking() returns true.
C30_SpeakingWhilePlaying == tts.current # None => runtime.state = "SPEAKING"

\* C37: once AssistantRuntime.stop() has run, running stays false and state
\* stays SHUTTING_DOWN, whatever the workers and the speech thread do later.
C37_ShutdownAbsorbing ==
    /\ [][ ~runtime.running => ~runtime'.running ]_vars
    /\ [](~runtime.running => runtime.state = "SHUTTING_DOWN")

(***************************************************************************)
(* ModeManager driven directly (tests_phase2.py, TestModeManager)          *)
(***************************************************************************)

\* entries of transition_history in one run
MaxTransitions == 3

\* callbacks registered in one run
MaxCallbacks == 2

\* the reasons given to set_mode
Reasons == {"unknown", "user_command"}

\* one ModeManager.set_mode call on the manager of the engine
SetMode(new_mode, reason) ==
    /\ Len(fusion.mode_manager.transition_history) < MaxTransitions
    /\ fusion' = [fusion EXCEPT !.mode_manager = set_mode(@, new_mode, reason)]
    /\ returned' = [from |-> fusion.mode_manager.current_mode, to |-> new_mode,
                    result |-> set_mode_result(fusion.mode_manager, new_mode)]
    /\ UNCHANGED <<mic_vars, unit_vars, pipe_vars, now, decision, call_texts, voice_vars, exec_vars, request>>

\* a callback is appended to the list ModeManager.callbacks[mode]
RegisterCallback(mode) ==
    /\ fusion.mode_manager.callbacks["LISTENING"] + fusion.mode_manager.callbacks["COMMAND"]
         + fusion.mode_manager.callbacks["DICTATION"] + fusion.mode_manager.callbacks["QUESTION"]
         + fusion.mode_manager.callbacks["DISABLED"] < MaxCallbacks
    /\ fusion' = [fusion EXCEPT !.mode_manager.callbacks[mode] = @ + 1]
    /\ UNCHANGED <<mic_vars, unit_vars, pipe_vars, now, decision, call_texts, voice_vars, exec_vars, returned, request>>

NextMode ==
    \/ \E new_mode \in Modes, reason \in Reasons : SetMode(new_mode, reason)
    \/ \E mode \in Modes : RegisterCallback(mode)

SpecMode == Init /\ [][NextMode]_vars

(***************************************************************************)
(* Properties of the ModeManager (SpecMode)                                *)
(***************************************************************************)

\* C9: set_mode(to) in mode from returns true iff from # to and (from, to) is
\* in the edge table; when it returns true the current mode is to and the
\* previous mode is from; the mode after construction is LISTENING.
C9_SetModeFollowsEdgeTable ==
    /\ NewModeManager.current_mode = "LISTENING"
    /\ [][ returned' # returned
           => /\ returned'.result
                   <=> (returned'.from # returned'.to
                        /\ <<returned'.from, returned'.to>> \in transitions)
              /\ returned'.result
                   => /\ fusion'.mode_manager.current_mode = returned'.to
                      /\ fusion'.mode_manager.previous_mode = returned'.from ]_vars

\* a set_mode call has succeeded and another has been refused since
C9_Witness ==
    /\ returned # NoCall
    /\ ~returned.result
    /\ returned.from # returned.to
    /\ fusion.mode_manager.transition_history # <<>>

\* C10: a set_mode call that returns false leaves current_mode,
\* previous_mode and transition_history as they were and runs no callback.
C10_RejectedChangesNothing ==
    [][ (returned' # returned /\ ~returned'.result)
        => /\ fusion'.mode_manager.current_mode = fusion.mode_manager.current_mode
           /\ fusion'.mode_manager.previous_mode = fusion.mode_manager.previous_mode
           /\ fusion'.mode_manager.transition_history = fusion.mode_manager.transition_history
           /\ fusion'.mode_manager.fired = fusion.mode_manager.fired ]_vars

\* a set_mode call was refused in a mode that has a callback registered,
\* after a transition that ran a callback
C10_Witness ==
    /\ returned # NoCall
    /\ ~returned.result
    /\ fusion.mode_manager.callbacks[returned.to] > 0
    /\ fusion.mode_manager.fired # <<>>

(***************************************************************************)
(* ExecutionEngine driven directly (test_execution_hardening_manual.py)    *)
(***************************************************************************)

\* decisions that reach an adapter or the UIA service in one run
MaxDispatched == 2

\* the decisions given to execute: the dicts of the hardening test (a value
\* that is no dict, dicts without action), dicts as to_dict and
\* _execute_confirmed build them, and OPEN_APP dicts with every key
ExecDecisions ==
    {NotADict,
     [status |-> "APPROVED", risk_level |-> 1],
     [status |-> "APPROVED", risk_level |-> 9, requires_confirmation |-> TRUE],
     [status |-> "APPROVED", action |-> "CLICK_INDEX", risk_level |-> 0,
      parameters |-> [NoParameters EXCEPT !.index = 2]],
     [status |-> "APPROVED", action |-> "CLICK_INDEX", risk_level |-> 0],
     [status |-> "APPROVED", action |-> "GET_TIME", risk_level |-> 0],
     [status |-> "APPROVED", action |-> "FILE_OPERATION", target |-> "reportpdf",
      risk_level |-> 8, requires_confirmation |-> TRUE, blocked_reason |-> None,
      message |-> "Action confirmed"],
     [status |-> "APPROVED", action |-> "FILE_OPERATION", target |-> "reportpdf",
      risk_level |-> 8, requires_confirmation |-> TRUE, blocked_reason |-> None,
      message |-> "Confirm action: FILE_OPERATION reportpdf", confirmed |-> TRUE]}
    \cup [status : {"APPROVED", "BLOCKED"},
          action : {"OPEN_APP", None},
          target : {"chrome"},
          risk_level : {1, 7},
          requires_confirmation : BOOLEAN,
          blocked_reason : {None, "Unsafe"},
          confirmed : BOOLEAN]

\* one ExecutionEngine.execute call
Execute(d, outcome) ==
    /\ Len(dispatched) < MaxDispatched
    /\ request' = d
    /\ \E r \in {execute(fusion.memory, d, outcome)} :
         /\ fusion' = [fusion EXCEPT !.memory = r.memory]
         /\ dispatched' = IF r.dispatched THEN Append(dispatched, d) ELSE dispatched
         /\ response' = r.response
    /\ UNCHANGED <<mic_vars, unit_vars, pipe_vars, now, decision, call_texts, voice_vars, returned>>

NextExec == \E d \in ExecDecisions, outcome \in AdapterOutcomes : Execute(d, outcome)

SpecExec == Init /\ [][NextExec]_vars

(***************************************************************************)
(* Properties of the ExecutionEngine (SpecExec)                            *)
(***************************************************************************)

\* the decision is APPROVED, has no blocked_reason and, when it requires
\* confirmation or has risk_level >= 7, is confirmed
Executable(d) ==
    /\ "not_a_dict" \notin DOMAIN d
    /\ Get(d, "status", None) = "APPROVED"
    /\ ~Truthy(Get(d, "blocked_reason", None))
    /\ (Get(d, "requires_confirmation", FALSE) \/ Get(d, "risk_level", 0) >= 7)
         => Get(d, "confirmed", FALSE)

\* the execute call of the step refused the decision with one of the codes,
\* dispatched nothing and left the ContextMemory alone
RefusedWith(codes) ==
    /\ ~response'.success
    /\ response'.error_code \in codes
    /\ dispatched' = dispatched
    /\ fusion'.memory = fusion.memory

\* C7 as stated: a decision is dispatched only if it is executable; a
\* decision dict that is not executable is refused with NOT_APPROVED,
\* BLOCKED_BY_SAFETY or CONFIRMATION_REQUIRED, without dispatch and without
\* context update.
C7_RefusedWithThreeCodes ==
    [][ /\ dispatched' # dispatched => Executable(request')
        /\ (request' # NoRequest /\ "not_a_dict" \notin DOMAIN request'
            /\ ~Executable(request'))
             => RefusedWith({"NOT_APPROVED", "BLOCKED_BY_SAFETY", "CONFIRMATION_REQUIRED"}) ]_vars

\* C7 amended: a decision is dispatched only if it is executable; a decision
\* that is not executable is refused without dispatch and without context
\* update, with INVALID_DECISION when it is no dict, else with NOT_APPROVED,
\* BLOCKED_BY_SAFETY, MISSING_ACTION (the action is tested before the
\* confirmation) or CONFIRMATION_REQUIRED.
C7_RefusedWithoutDispatch ==
    [][ /\ dispatched' # dispatched => Executable(request')
        /\ (request' # NoRequest /\ ~Executable(request'))
             => RefusedWith({"INVALID_DECISION", "NOT_APPROVED", "BLOCKED_BY_SAFETY",
                             "MISSING_ACTION", "CONFIRMATION_REQUIRED"}) ]_vars

\* a decision has been dispatched with a context update, and a later decision
\* that lacks its confirmation has been refused
C7_Witness ==
    /\ dispatched # <<>>
    /\ fusion.memory.last_app = "chrome"
    /\ request # NoRequest
    /\ ~Executable(request)
    /\ response.error_code = "CONFIRMATION_REQUIRED"

(***************************************************************************)
(* Intent and SafetyEngine used directly (tests_phase2.py, test_safety.py):*)
(* an Intent is constructed from given arguments and then passed to        *)
(* evaluate, which mutates and returns the same object, any number of      *)
(* times in any modes                                                      *)
(***************************************************************************)

\* risk_level arguments are drawn from -1 .. MaxRiskInput
MaxRiskInput == 11

\* Intent(intent_type, text, action, confidence=..., risk_level=...,
\* requires_confirmation=...): __post_init__ raises ValueError when
\* IntentValid fails, and no object exists then.  The SafetyEngine keeps no
\* state between calls, so one behaviour follows one object.
Construct(intent_type, text, confidence, risk_level, requires_confirmation) ==
    /\ built = NoCall
    /\ built' = [raised |-> ~IntentValid(confidence, risk_level),
                 confidence |-> confidence, risk_level |-> risk_level,
                 intent |-> IF IntentValid(confidence, risk_level)
                            THEN Intent(intent_type, text, intent_type, None, NoParameters,
                                        confidence, "unknown", risk_level,
                                        requires_confirmation)
                            ELSE NoIntent]
    /\ evaluated' = NoCall
    /\ UNCHANGED <<mic_vars, lock_vars, pipe_vars, fusion_vars, voice_vars, exec_vars, returned, request,
                   memory, updates, enriched>>

\* safety.evaluate(intent, current_mode) on the constructed object
Evaluate(current_mode) ==
    /\ built # NoCall
    /\ ~built.raised
    /\ \E after \in {evaluate(built.intent, current_mode)} :
         /\ evaluated' = [before |-> built.intent, mode |-> current_mode, after |-> after]
         /\ built' = [built EXCEPT !.intent = after]
    /\ UNCHANGED <<mic_vars, lock_vars, pipe_vars, fusion_vars, voice_vars, exec_vars, returned, request,
                   memory, updates, enriched>>

NextSafety ==
    \/ \E intent_type \in {"OPEN_APP", "FILE_OPERATION", "SYSTEM_CONTROL", "UNKNOWN"},
          text \in {"open chrome", "delete all files"},
          confidence \in {-1, 0, 100, 101},
          risk_level \in -1..MaxRiskInput,
          requires_confirmation \in BOOLEAN :
         Construct(intent_type, text, confidence, risk_level, requires_confirmation)
    \/ \E current_mode \in Modes : Evaluate(current_mode)

SpecSafety == Init /\ [][NextSafety]_vars

\* C13: after an evaluate call in any mode, the intent's risk_level is at
\* least what it was before the call.
C13_EvaluateNeverLowersRisk ==
    [](evaluated # NoCall
         => evaluated.after.risk_level >= evaluated.before.risk_level)

\* C14: an evaluate call on the result of an evaluate call in the same mode
\* returns the same risk_level, blocked_reason and requires_confirmation.
C14_EvaluateIdempotent ==
    [][ (/\ evaluated # NoCall
         /\ evaluated' # NoCall
         /\ evaluated'.before = evaluated.after
         /\ evaluated'.mode = evaluated.mode)
        => /\ evaluated'.after.risk_level = evaluated.after.risk_level
           /\ evaluated'.after.blocked_reason = evaluated.after.blocked_reason
           /\ evaluated'.after.requires_confirmation
                = evaluated.after.requires_confirmation ]_vars

\* an intent that a first evaluation escalated and marked for confirmation
\* was evaluated again and came back unchanged
C14_Witness ==
    /\ evaluated # NoCall
    /\ evaluated.mode = "COMMAND"
    /\ evaluated.before.context.danger_pattern_detected # None
    /\ evaluated.before.risk_level = 8
    /\ evaluated.before.requires_confirmation
    /\ built.risk_level = 0
    /\ evaluated.after = evaluated.before

\* C15: after an evaluate call in a mode other than DISABLED, a risk_level of
\* 9 or more comes with a blocked_reason and requires_confirmation false; a
\* lower risk_level of 6 or more comes with requires_confirmation true and
\* the blocked_reason the intent had before the call.
C15_ThresholdRules ==
    [](evaluated # NoCall /\ evaluated.mode # "DISABLED"
         => IF evaluated.after.risk_level >= 9
            THEN /\ evaluated.after.blocked_reason # None
                 /\ ~evaluated.after.requires_confirmation
            ELSE evaluated.after.risk_level >= 6
                 => /\ evaluated.after.requires_confirmation
                    /\ evaluated.after.blocked_reason = evaluated.before.blocked_reason)

\* both cases: an intent constructed with requires_confirmation true was
\* blocked at risk 9 and lost the flag, or, constructed without the flag,
\* was raised to risk 7 by the FILE_OPERATION policy and gained it
C15_Witness ==
    /\ evaluated # NoCall
    /\ evaluated.mode = "LISTENING"
    /\ \/ /\ evaluated.after.risk_level = 9
          /\ evaluated.before.requires_confirmation
          /\ evaluated.before.blocked_reason = None
          /\ evaluated.after.blocked_reason = "Operation blocked due to extreme risk"
       \/ /\ evaluated.after.risk_level = 7
          /\ evaluated.before.risk_level = 0
          /\ ~evaluated.before.requires_confirmation
          /\ evaluated.after.requires_confirmation

\* C19: an Intent(...) call whose confidence is outside 0.0-1.0 or whose
\* risk_level is outside 0-9 raises ValueError.
C19_OutOfRangeRaises ==
    [](built # NoCall
         => ((~(0 <= built.confidence /\ built.confidence <= 100)
              \/ ~(0 <= built.risk_level /\ built.risk_level <= 9))
             => built.raised))

(***************************************************************************)
(* ContextMemory used directly (test_context.py): a memory built with      *)
(* max_history = MemoryCap receives update, enrich and clear calls in any  *)
(* order, each under the memory's lock.  The intents are new objects from  *)
(* the parser.                                                             *)
(***************************************************************************)

\* ContextMemory(max_history = MemoryCap)
MemoryCap == 2

\* at most MaxUpdates update calls between two clear calls
MaxUpdates == 4

\* memory.update(intent)
MemUpdate(intent) ==
    /\ Len(updates) < MaxUpdates
    /\ memory' = update_capped(memory, intent, MemoryCap)
    /\ updates' = Append(updates, intent)
    /\ UNCHANGED <<mic_vars, lock_vars, pipe_vars, fusion_vars, voice_vars, exec_vars, returned, request,
                   built, evaluated, enriched>>

\* memory.enrich(intent)
MemEnrich(intent) ==
    /\ enriched' = enrich(memory, intent)
    /\ UNCHANGED <<mic_vars, lock_vars, pipe_vars, fusion_vars, voice_vars, exec_vars, returned, request,
                   built, evaluated, memory, updates>>

\* memory.clear()
MemClear ==
    /\ memory' = clear(memory)
    /\ updates' = <<>>
    /\ UNCHANGED <<mic_vars, lock_vars, pipe_vars, fusion_vars, voice_vars, exec_vars, returned, request,
                   built, evaluated, enriched>>

\* the loop body of test_context.py: parse, enrich, update
MemCommand(cmd) ==
    /\ Len(updates) < MaxUpdates
    /\ \E intent \in {enrich(memory, Parse(cmd, "LISTENING"))} :
         /\ enriched' = intent
         /\ memory' = update_capped(memory, intent, MemoryCap)
         /\ updates' = Append(updates, intent)
    /\ UNCHANGED <<mic_vars, lock_vars, pipe_vars, fusion_vars, voice_vars, exec_vars, returned, request,
                   built, evaluated>>

NextMemory ==
    \/ \E text \in {"open chrome", "delete report.pdf", "close it"} :
         MemUpdate(Parse(text, "LISTENING"))
    \/ MemUpdate(Intent("FILE_OPERATION", "delete report.pdf", "DELETE", "report.pdf",
                        NoParameters, 85, "keyword_rule", 8, FALSE))
    \/ \E text \in {"close it", "open that", "delete this", "search", "open chrome"} :
         MemEnrich(Parse(text, "LISTENING"))
    \/ MemClear

SpecMemory == Init /\ [][NextMemory]_vars

\* test_context.py: the commands of the script, in any order
NextCommands ==
    \E cmd \in {"open chrome", "search transformers", "delete report.pdf", "delete"} :
       MemCommand(cmd)

SpecCommands == Init /\ [][NextCommands]_vars

\* C20: after any update, enrich and clear calls the history is no longer
\* than max_history and is the last min(n, max_history) intents passed to
\* update since the memory was built or cleared, in call order; an update
\* call that finds the history full drops its first entry and no other.
C20_HistoryBounded ==
    /\ [](/\ Len(memory.history) <= MemoryCap
          /\ \E n \in {Len(updates)} :
               memory.history
                 = SubSeq(updates, n - Len(memory.history) + 1, n)
          /\ Len(memory.history) = IF Len(updates) < MemoryCap
                                   THEN Len(updates) ELSE MemoryCap)
    /\ [][ (Len(updates') = Len(updates) + 1 /\ Len(memory.history) = MemoryCap)
           => memory'.history
                = Append(Tail(memory.history), updates'[Len(updates')]) ]_vars

\* the history is full, an update has dropped the first intent it received,
\* and enrich has resolved a reference from the memory
C20_Witness ==
    /\ Len(updates) > MemoryCap
    /\ Len(memory.history) = MemoryCap
    /\ memory.history[1] # updates[1]
    /\ memory.history[MemoryCap] = updates[Len(updates)]
    /\ enriched # NoIntent
    /\ enriched.context.reference_resolved

\* C21: an enrich call on an intent whose target is it, that or this returns
\* the intent with target last_app when an app is remembered, otherwise with
\* target last_file when a file is remembered, otherwise with its target
\* unchanged.
C21_ReferenceResolution ==
    [][ enriched' # enriched
        => \A input \in {Parse(enriched'.text, "LISTENING")} :
             input.target \in {"it", "that", "this"}
             => enriched'.target = IF Truthy(memory.last_app) THEN memory.last_app
                                   ELSE IF Truthy(memory.last_file) THEN memory.last_file
                                   ELSE input.target ]_vars

\* with only a file remembered, "delete this" was enriched to that file
C21_Witness ==
    /\ enriched # NoIntent
    /\ enriched.text = "delete this"
    /\ enriched.target = "report.pdf"
    /\ enriched.context.reference_resolved
    /\ memory.last_app = None
    /\ memory.last_file = "report.pdf"

\* C33: an enrich call sets context.reference_resolved only when the incoming
\* target is it, that or this and a remembered app or file has replaced it;
\* an intent whose target is none of the three keeps its target and is not
\* marked as reference-resolved.
C33_ResolvedOnlyForPronouns ==
    [][ enriched' # enriched
        => \A input \in {Parse(enriched'.text, "LISTENING")} :
             /\ enriched'.context.reference_resolved
                  => /\ input.target \in {"it", "that", "this"}
                     /\ enriched'.target \in {memory.last_app, memory.last_file}
             /\ (Truthy(input.target) /\ input.target \notin {"it", "that", "this"})
                  => /\ enriched'.target = input.target
                     /\ ~enriched'.context.reference_resolved ]_vars

\* C34: a parse, enrich, update pass over "delete report.pdf" records the
\* named file as last_file, and a pass over "delete" made while a file is
\* remembered returns the intent with that file as target and inference
\* confidence 0.80.
C34_DeleteRemembersFile ==
    [][ (Len(updates') = Len(updates) + 1 /\ enriched' = updates'[Len(updates')])
        => /\ enriched'.text = Parse("delete report.pdf", "LISTENING").text
                => /\ Truthy(memory'.last_file)
                   /\ memory'.last_file = Parse("delete report.pdf", "LISTENING").target
           /\ (enriched'.text = "delete" /\ Truthy(memory.last_file))
                => /\ enriched'.target = memory.last_file
                   /\ enriched'.context.inference_confidence = 80 ]_vars

(***************************************************************************)
(* The lock of the shared ContextMemory.  VoiceLoop hands fusion.memory to *)
(* the DecisionRouter and so to the ExecutionEngine (voice_loop.py 28-32). *)
(* Threads call enrich, update and clear, which take memory.lock, and      *)
(* get_memory_snapshot, get_last_intent and _update_context, which do not. *)
(* An access is recorded with the thread that made it and the thread that  *)
(* held the lock at that moment.                                           *)
(***************************************************************************)

\* the calls that enter `with self.lock`
LockedCalls ==
    {[op |-> "update", intent |-> Parse(text, "LISTENING")] : text \in {"open chrome", "what is this"}}
      \cup {[op |-> "enrich", intent |-> Parse("close it", "LISTENING")],
            [op |-> "clear", intent |-> NoIntent]}

\* the decision dicts an approved action reaches _update_context with
ContextDecisions ==
    {[action |-> "OPEN_APP", target |-> "chrome"],
     [action |-> "SYSTEM_CONTROL", target |-> "chrome"],
     [action |-> "FILE_OPERATION", target |-> "report.pdf"]}

\* ContextMemory.get_memory_snapshot (session_id, fixed at construction, left out)
get_memory_snapshot(mem) ==
    [last_app |-> mem.last_app, last_file |-> mem.last_file,
     last_topic |-> mem.last_topic, history_size |-> Len(mem.history)]

\* ContextMemory.get_last_intent
get_last_intent(mem) ==
    IF mem.history = <<>> THEN None ELSE mem.history[Len(mem.history)]

\* `with self.lock:` at the top of enrich, update and clear: thread t gets
\* the lock when no thread holds it
Acquire(t, call) ==
    /\ lock = None
    /\ in_call[t] = NoCall
    /\ call.op = "update" => Len(updates) < MaxUpdates
    /\ lock' = t
    /\ in_call' = [in_call EXCEPT ![t] = call]
    /\ UNCHANGED <<access, built, evaluated, memory, updates, enriched,
                   mic_vars, pipe_vars, fusion_vars, voice_vars, exec_vars, returned, request>>

\* the body of the with block of enrich, update or clear, and the release
\* of the lock at its end
LockedBody(t) ==
    /\ in_call[t] # NoCall
    /\ memory' = IF in_call[t].op = "update"
                 THEN update_capped(memory, in_call[t].intent, MemoryCap)
                 ELSE IF in_call[t].op = "clear" THEN clear(memory) ELSE memory
    /\ updates' = IF in_call[t].op = "update" THEN Append(updates, in_call[t].intent)
                  ELSE IF in_call[t].op = "clear" THEN <<>> ELSE updates
    /\ enriched' = IF in_call[t].op = "enrich"
                   THEN enrich(memory, in_call[t].intent) ELSE enriched
    /\ access' = [by |-> t, op |-> in_call[t].op, holder |-> lock]
    /\ lock' = None
    /\ in_call' = [in_call EXCEPT ![t] = NoCall]
    /\ UNCHANGED <<built, evaluated,
                   mic_vars, pipe_vars, fusion_vars, voice_vars, exec_vars, returned, request>>

\* memory.get_memory_snapshot() by thread t
GetMemorySnapshot(t) ==
    /\ in_call[t] = NoCall
    /\ access' = [by |-> t, op |-> "get_memory_snapshot", holder |-> lock,
                  result |-> get_memory_snapshot(memory)]
    /\ UNCHANGED <<lock, in_call, built, evaluated, memory, updates, enriched,
                   mic_vars, pipe_vars, fusion_vars, voice_vars, exec_vars, returned, request>>

\* memory.get_last_intent() by thread t
GetLastIntent(t) ==
    /\ in_call[t] = NoCall
    /\ access' = [by |-> t, op |-> "get_last_intent", holder |-> lock,
                  result |-> get_last_intent(memory)]
    /\ UNCHANGED <<lock, in_call, built, evaluated, memory, updates, enriched,
                   mic_vars, pipe_vars, fusion_vars, voice_vars, exec_vars, returned, request>>

\* ExecutionEngine._update_context(decision) by thread t, after a routed
\* action succeeded
UpdateContext(t, d) ==
    /\ in_call[t] = NoCall
    /\ memory' = update_context(memory, d)
    /\ access' = [by |-> t, op |-> "_update_context", holder |-> lock]
    /\ UNCHANGED <<lock, in_call, built, evaluated, updates, enriched,
                   mic_vars, pipe_vars, fusion_vars, voice_vars, exec_vars, returned, request>>

NextLock ==
    \E t \in Threads :
       \/ \E call \in LockedCalls : Acquire(t, call)
       \/ LockedBody(t)
       \/ GetMemorySnapshot(t)
       \/ GetLastIntent(t)
       \/ \E d \in ContextDecisions : UpdateContext(t, d)

SpecLock == Init /\ [][NextLock]_vars

\* C22: every access to last_app, last_file, last_topic and history is made
\* by a thread that holds the memory's lock at that moment.
C22_AccessesHoldLock ==
    access # NoCall => access.holder = access.by

(***************************************************************************)
(* The three worker threads of the VoiceLoop (voice_loop.py 72-239).  Each *)
(* worker is at the head of its loop (about to test runtime.running), in   *)
(* the body, busy with a dequeued item, or done.  A segment's transcript   *)
(* stands for the segment, and no two segments of a run carry the same     *)
(* transcript.  _stt_worker's wait while the assistant speaks is counted   *)
(* in sleeps of 0.05 s; the assistant does not speak in the pipeline runs. *)
(***************************************************************************)

\* segments captured in one run
MaxSegments == 3

\* exceptions raised in the three workers in one run
MaxFailures == 1

\* variant of loop_continues: the running flag is not polled
loop_continues_always(rt) == TRUE

\* the loop test `while self.runtime.running`
loop_continues(rt) == rt.running

\* AssistantRuntime.stop
stop(rt) == [rt EXCEPT !.state = "SHUTTING_DOWN", !.running = FALSE]

\* variant of worker_failed: the handler stops the runtime
worker_failed_stops(rt) == stop(rt)

\* the except clauses of _stt_worker and _intent_worker: the error is printed
worker_failed(rt) == rt

\* variant of text_queue_put: the text is put in front of the queue
text_queue_put_front(q, text) == <<text>> \o q

\* text_queue.put(text) of a queue.Queue
text_queue_put(q, text) == Append(q, text)

\* a worker tests the loop condition
Enter(w) ==
    /\ workers[w] = "head"
    /\ workers' = [workers EXCEPT ![w] = IF loop_continues(runtime) THEN "body" ELSE "done"]
    /\ UNCHANGED <<mic_vars, unit_vars, fusion_vars, voice_vars, exec_vars, returned, request,
                   audio_queue, stt_item, waited, emitted, decided, failures>>

\* _mic_worker: frames are read and complete a segment, put on audio_queue
MicEmit(text) ==
    /\ workers.mic = "body"
    /\ Len(emitted) < MaxSegments
    /\ \A k \in 1..Len(emitted) : emitted[k] # text
    /\ audio_queue' = Append(audio_queue, text)
    /\ emitted' = Append(emitted, text)
    /\ workers' = [workers EXCEPT !.mic = "head"]
    /\ UNCHANGED <<mic_vars, unit_vars, fusion_vars, voice_vars, exec_vars, returned, request,
                   stt_item, waited, decided, failures>>

\* _mic_worker: a frame is read that completes no segment
MicIdle ==
    /\ workers.mic = "body"
    /\ workers' = [workers EXCEPT !.mic = "head"]
    /\ UNCHANGED <<mic_vars, unit_vars, fusion_vars, voice_vars, exec_vars, returned, request,
                   audio_queue, stt_item, waited, emitted, decided, failures>>

\* _mic_worker: an exception leaves the loop; the handler stops the runtime
MicCrash ==
    /\ workers.mic = "body"
    /\ failures.mic + failures.stt + failures.intent < MaxFailures
    /\ failures' = [failures EXCEPT !.mic = @ + 1]
    /\ runtime' = stop(runtime)
    /\ workers' = [workers EXCEPT !.mic = "done"]
    /\ UNCHANGED <<mic_vars, unit_vars, fusion_vars, tts, text_queue, heard, routed, exec_vars,
                   returned, request, audio_queue, stt_item, waited, emitted, decided>>

\* _stt_worker or _intent_worker: queue.get times out on an empty queue
Timeout(w) ==
    /\ workers[w] = "body"
    /\ \/ w = "stt" /\ audio_queue = <<>>
       \/ w = "intent" /\ text_queue = <<>>
    /\ workers' = [workers EXCEPT ![w] = "head"]
    /\ UNCHANGED <<mic_vars, unit_vars, fusion_vars, voice_vars, exec_vars, returned, request,
                   audio_queue, stt_item, waited, emitted, decided, failures>>

\* the limit of _stt_worker's wait for the speech to end, 2.0 s, in sleeps
\* of 0.05 s
wait_limit == 40

\* variant: the wait for the speech to end has no time limit
wait_continues_unbounded(rt, w) == rt.state = "SPEAKING"

\* the test of _stt_worker's wait loop: the assistant is speaking and less
\* than 2.0 s have passed since the wait began
wait_continues(rt, w) == rt.state = "SPEAKING" /\ w < wait_limit

\* _stt_worker: audio_queue.get returns a segment
SttGet ==
    /\ workers.stt = "body"
    /\ audio_queue # <<>>
    /\ stt_item' = Head(audio_queue)
    /\ waited' = 0
    /\ audio_queue' = Tail(audio_queue)
    /\ workers' = [workers EXCEPT !.stt = "busy"]
    /\ UNCHANGED <<mic_vars, unit_vars, fusion_vars, voice_vars, exec_vars, returned, request,
                   emitted, decided, failures>>

\* _stt_worker: the segment is transcribed and, unless it is noise, queued
SttPut ==
    /\ workers.stt = "busy"
    /\ ~wait_continues(runtime, waited)
    /\ text_queue' = IF stt_forwards(Strip(stt_item))
                     THEN text_queue_put(text_queue, Strip(stt_item)) ELSE text_queue
    /\ stt_item' = None
    /\ workers' = [workers EXCEPT !.stt = "head"]
    /\ UNCHANGED <<mic_vars, unit_vars, fusion_vars, runtime, tts, heard, routed, exec_vars,
                   returned, request, audio_queue, waited, emitted, decided, failures>>

\* _stt_worker: one time.sleep(0.05) of the wait for the speech to end
SttWait ==
    /\ workers.stt = "busy"
    /\ wait_continues(runtime, waited)
    /\ waited' = waited + 1
    /\ UNCHANGED <<mic_vars, unit_vars, fusion_vars, voice_vars, exec_vars, returned, request,
                   workers, audio_queue, stt_item, emitted, decided, failures>>

\* _stt_worker: transcribe raises; the handler in the loop catches it
SttCrash ==
    /\ workers.stt = "busy"
    /\ ~wait_continues(runtime, waited)
    /\ failures.mic + failures.stt + failures.intent < MaxFailures
    /\ failures' = [failures EXCEPT !.stt = @ + 1]
    /\ runtime' = worker_failed(runtime)
    /\ stt_item' = None
    /\ workers' = [workers EXCEPT !.stt = "head"]
    /\ UNCHANGED <<mic_vars, unit_vars, fusion_vars, tts, text_queue, heard, routed, exec_vars,
                   returned, request, audio_queue, waited, emitted, decided>>

\* _intent_worker: text_queue.get returns a text and the pass handles it; the
\* exit branch returns from the worker
IntentDecide(outcome) ==
    /\ workers.intent = "body"
    /\ IntentPass(outcome)
    /\ decided' = Append(decided, Head(text_queue))
    /\ workers' = [workers EXCEPT !.intent =
                     IF /\ ~runtime.awaiting_confirmation
                        /\ \/ Contains(Strip(Lower(Head(text_queue))), "exit")
                           \/ Contains(Strip(Lower(Head(text_queue))), "quit")
                     THEN "done" ELSE "head"]
    /\ UNCHANGED <<audio_queue, stt_item, waited, emitted, failures>>

\* _intent_worker: handling the dequeued text raises before it is decided;
\* the handler in the loop catches it
IntentCrash ==
    /\ workers.intent = "body"
    /\ text_queue # <<>>
    /\ failures.mic + failures.stt + failures.intent < MaxFailures
    /\ failures' = [failures EXCEPT !.intent = @ + 1]
    /\ text_queue' = Tail(text_queue)
    /\ runtime' = worker_failed(runtime)
    /\ workers' = [workers EXCEPT !.intent = "head"]
    /\ UNCHANGED <<mic_vars, unit_vars, fusion_vars, tts, heard, routed, exec_vars,
                   returned, request, audio_queue, stt_item, waited, emitted, decided>>

MicNext ==
    \/ Enter("mic")
    \/ \E text \in {"open chrome", "hello", "exit", "uh"} : MicEmit(text)
    \/ MicIdle
    \/ MicCrash

SttNext ==
    \/ Enter("stt")
    \/ Timeout("stt")
    \/ SttGet
    \/ SttPut
    \/ SttCrash

IntentNext ==
    \/ Enter("intent")
    \/ Timeout("intent")
    \/ \E outcome \in AdapterOutcomes : IntentDecide(outcome)
    \/ IntentCrash

\* start_production: the main thread catches KeyboardInterrupt and stops the
\* runtime, wherever the workers are
KeyboardInterrupt ==
    /\ runtime.running
    /\ runtime' = stop(runtime)
    /\ UNCHANGED <<mic_vars, unit_vars, pipe_vars, fusion_vars, tts, text_queue, heard, routed,
                   exec_vars, returned, request>>

NextPipeline == MicNext \/ SttNext \/ IntentNext \/ KeyboardInterrupt

SpecPipeline == Init /\ [][NextPipeline]_vars

\* _intent_worker, line 174, seen from the queue: text_queue.get hands an
\* item to the loop body. The steps of NextPipeline that take an item off
\* text_queue are exactly those of IntentDecide and IntentCrash.
IntentTakes ==
    /\ workers.intent = "body"
    /\ text_queue # <<>>
    /\ text_queue' = Tail(text_queue)

\* _stt_worker, lines 140-162, seen from the segment in hand: the pass over
\* the segment ends, by a put, a skip or the handler. The steps of NextPipeline
\* that drop the segment in hand are exactly those of SttPut and SttCrash.
SttFinishes ==
    /\ workers.stt = "busy"
    /\ ~wait_continues(runtime, waited)
    /\ stt_item' = None

\* the three threads keep running: a step that a worker can take is not
\* postponed for ever, every blocking read returning or timing out
FairPipeline ==
    /\ SpecPipeline
    /\ WF_vars(MicNext)
    /\ WF_vars(Enter("stt") \/ Timeout("stt") \/ SttGet)
    /\ WF_stt_item(SttFinishes)
    /\ WF_vars(Enter("intent") \/ Timeout("intent"))
    /\ WF_text_queue(IntentTakes)

\* C24: the texts the decision worker has dequeued are in the order in which
\* the capture worker emitted their segments: of any two decided texts, the
\* segment of the earlier one was emitted first.
C24_PipelineOrder ==
    \A i, j \in 1..Len(decided) :
      i < j => \E a, b \in 1..Len(emitted) :
                 /\ a < b
                 /\ Strip(emitted[a]) = decided[i]
                 /\ Strip(emitted[b]) = decided[j]

\* three segments were captured, the second was dropped as noise, and the
\* first and third were decided in that order
C24_Witness ==
    /\ Len(emitted) = 3
    /\ emitted[2] = "uh"
    /\ decided = <<emitted[1], emitted[3]>>

\* C25: once runtime.running is false, each of the three workers eventually
\* leaves its loop, whatever the queues hold and wherever the workers are.
C25_WorkersTerminate ==
    (~runtime.running)
      ~> (workers.mic = "done" /\ workers.stt = "done" /\ workers.intent = "done")

\* all three workers have ended after a capture failure, with a text still
\* queued for the decision worker
C25_Witness ==
    /\ ~runtime.running
    /\ failures.mic = 1
    /\ workers = [mic |-> "done", stt |-> "done", intent |-> "done"]
    /\ text_queue # <<>>

\* C26: an exception in the capture worker sets running to false; an
\* exception caught while transcribing or deciding an item leaves running as
\* it was and the worker at the head of its loop.
C26_FailureAsymmetry ==
    /\ [][ failures'.mic > failures.mic
           => (~runtime'.running /\ workers'.mic = "done") ]_vars
    /\ [][ failures'.stt > failures.stt
           => (runtime'.running = runtime.running /\ workers'.stt = "head") ]_vars
    /\ [][ failures'.intent > failures.intent
           => (runtime'.running = runtime.running /\ workers'.intent = "head") ]_vars

\* the decision worker failed on the first text and, still running, decided
\* the next one
C26_Witness ==
    /\ failures.intent = 1
    /\ runtime.running
    /\ Len(emitted) >= 2
    /\ stt_forwards(emitted[1])
    /\ decided = <<emitted[2]>>

\* C36: audio_queue and text_queue have a fixed capacity that the capture
\* worker cannot exceed by running ahead: however many segments a run
\* produces (MaxSegments), neither queue ever holds that many items.
C36_QueuesBounded ==
    /\ Len(audio_queue) < MaxSegments
    /\ Len(text_queue) < MaxSegments

(***************************************************************************)
(* The capture loop of _mic_worker, frame by frame (voice_loop.py 94-115). *)
(* A frame is written as its number in capture order; the voice-activity   *)
(* detector answers speech or silence for each frame.  config.py, which    *)
(* holds MAX_SILENCE_FRAMES, is not among the sources: the threshold is a  *)
(* parameter of the model.                                                 *)
(***************************************************************************)

\* frames read in one run
MaxFrames == 16

\* config.MAX_SILENCE_FRAMES
MAX_SILENCE_FRAMES == 2

\* MIN_SPEECH_FRAMES
MIN_SPEECH_FRAMES == 8

\* the emission test of lines 106-109 on the counters after the frame
segment_complete(silence, buffered) ==
    silence > MAX_SILENCE_FRAMES /\ Len(buffered) > MIN_SPEECH_FRAMES

\* one pass of the loop body: mic.read(), the detector's answer, the counters
\* and, when the test holds, the emission of the buffer
Frame(is_speech) ==
    /\ runtime.running
    /\ captured < MaxFrames
    /\ captured' = captured + 1
    /\ \E buffered \in {IF is_speech THEN Append(buffer, captured + 1) ELSE buffer},
          silence \in {IF is_speech THEN 0 ELSE silence_frames + 1} :
         IF segment_complete(silence, buffered)
         THEN /\ segments' = Append(segments, buffered)
              /\ buffer' = <<>>
              /\ silence_frames' = 0
         ELSE /\ segments' = segments
              /\ buffer' = buffered
              /\ silence_frames' = silence
    /\ UNCHANGED <<unit_vars, pipe_vars, fusion_vars, voice_vars, exec_vars, returned, request>>

NextMic == \E is_speech \in BOOLEAN : Frame(is_speech)

SpecMic == Init /\ [][NextMic]_vars

\* C31: a segment is emitted only by a frame that brings the silence run
\* above MAX_SILENCE_FRAMES with more than MIN_SPEECH_FRAMES frames buffered,
\* the emission empties the buffer and zeroes the silence counter, and no
\* segment holds two frames with more than MAX_SILENCE_FRAMES frames of
\* silence between them.
C31_SegmentIsOneUtterance ==
    /\ [][ segments' # segments
           => /\ silence_frames + 1 > MAX_SILENCE_FRAMES
              /\ Len(buffer) > MIN_SPEECH_FRAMES
              /\ segments' = Append(segments, buffer)
              /\ buffer' = <<>>
              /\ silence_frames' = 0 ]_vars
    /\ [](\A s \in 1..Len(segments) : \A k \in 1..(Len(segments[s]) - 1) :
            segments[s][k + 1] - segments[s][k] - 1 <= MAX_SILENCE_FRAMES)

(***************************************************************************)
(* The transcription worker on its own (voice_loop.py 125-162): segments   *)
(* arrive on audio_queue and their transcripts are put on text_queue or    *)
(* dropped.                                                                *)
(***************************************************************************)

\* the transcripts the segments carry: the confirmation tokens, the single
\* words _intent_worker handles itself (lines 210-230), and one-word noise
SttTexts == {"yes", "y", "confirm", "no", "n", "cancel", "stop", "exit", "quit", "abort", "uh"}

NextStt ==
    \/ Enter("mic")
    \/ \E text \in SttTexts : MicEmit(text)
    \/ Enter("stt")
    \/ Timeout("stt")
    \/ SttGet
    \/ SttPut

SpecStt == Init /\ [][NextStt]_vars

\* C39: a transcript that is a confirmation token (yes, y, confirm, no, n,
\* cancel) or a system-interrupt word (stop, exit, quit, abort) is always
\* put on text_queue when the pass over its segment ends without an
\* exception, one-word transcripts included.
C39_InterruptWordsForwarded ==
    [][ (/\ workers.stt = "busy"
         /\ stt_item' = None
         /\ failures' = failures
         /\ Lower(Strip(stt_item)) \in {"yes", "y", "confirm", "no", "n", "cancel",
                                        "stop", "exit", "quit", "abort"})
        => text_queue' = Append(text_queue, Strip(stt_item)) ]_vars

(***************************************************************************)
(* The transcription worker while the assistant speaks (voice_loop.py      *)
(* 135-138, tts.py 39-77): the TTS thread starts and ends utterances while *)
(* the worker holds a segment.                                             *)
(***************************************************************************)

\* TTS.speak from another thread: an utterance is queued
TtsSpeak ==
    /\ Len(tts.queue) < MaxQueue
    /\ tts' = speak(tts, "Please respond with yes or no")
    /\ UNCHANGED <<mic_vars, unit_vars, pipe_vars, fusion_vars, runtime, text_queue, heard,
                   routed, exec_vars, returned, request>>

NextWait ==
    \/ Enter("mic")
    \/ \E text \in {"open chrome", "uh"} : MicEmit(text)
    \/ Enter("stt")
    \/ Timeout("stt")
    \/ SttGet
    \/ SttWait
    \/ SttPut
    \/ TtsSpeak
    \/ TtsStart
    \/ TtsFinish

SpecWait == Init /\ [][NextWait]_vars

\* _stt_worker with a segment in hand, as one sequential thread: it sleeps
\* once more while the wait loop's test holds, and otherwise goes on to
\* transcribe. The steps of NextWait that change waited or drop the segment
\* in hand while the worker is busy are exactly those of SttWait and SttPut.
SttProceeds ==
    /\ workers.stt = "busy"
    /\ IF wait_continues(runtime, waited)
       THEN waited' = waited + 1 /\ stt_item' = stt_item
       ELSE stt_item' = None /\ waited' = waited

\* the transcription thread keeps running; the TTS thread is under no
\* obligation to end an utterance
FairWait ==
    /\ SpecWait
    /\ WF_<<waited, stt_item>>(SttProceeds)

\* C35: a segment taken off audio_queue is passed to the transcriber in the
\* end, however long the assistant goes on speaking: the wait for the
\* speech to end gives up after wait_limit sleeps.
C35_SegmentTranscribed ==
    /\ (workers.stt = "busy") ~> (workers.stt = "head")
    /\ [](waited <= wait_limit)
    /\ [][ (workers.stt = "busy" /\ workers'.stt = "head")
           => (runtime.state # "SPEAKING" \/ waited = wait_limit) ]_vars

\* C35 witness: the wait lasted the full two seconds and the segment was
\* transcribed and queued while the assistant is still speaking
C35_Witness ==
    /\ workers.stt = "head"
    /\ stt_item = None
    /\ text_queue = <<"open chrome">>
    /\ runtime.state = "SPEAKING"
    /\ tts.current # None
    /\ waited = wait_limit

(***************************************************************************)
(* ModeManager.handle_intent driven directly (mode_manager.py 52-150):     *)
(* parsed intents are handed to the manager one by one, the assistant is   *)
(* disabled and enabled by set_mode in between, and time passes.           *)
(***************************************************************************)

\* the utterances whose intents are given to handle_intent
IntentTexts == {"delete report.pdf", "yes", "no", "open chrome", "what time is it"}

\* one ModeManager.handle_intent call with the intent parsed from text
HandleIntent(text) ==
    /\ Len(call_texts) < MaxCalls
    /\ \E r \in {mode_handle_intent(fusion.mode_manager,
                                    Parse(text, fusion.mode_manager.current_mode), now)} :
         /\ fusion' = [fusion EXCEPT !.mode_manager = r.mm]
         /\ returned' = [handled |-> r.result, mode |-> r.mm.current_mode]
    /\ call_texts' = Append(call_texts, text)
    /\ UNCHANGED <<mic_vars, unit_vars, pipe_vars, now, decision, voice_vars, exec_vars, request>>

NextIntent ==
    \/ \E text \in IntentTexts : HandleIntent(text)
    \/ \E new_mode \in {"DISABLED", "LISTENING"} : SetMode(new_mode, "unknown")
    \/ Tick(mode_confirmation_timeout + 1)

SpecIntent == Init /\ [][NextIntent]_vars

\* C38: handle_intent never returns an intent without a blocked_reason
\* while the current mode is DISABLED, whatever intents came before, a
\* confirmable intent followed by "yes" included.
C38_DisabledNeverExecutable ==
    ("handled" \in DOMAIN returned /\ returned.handled # NoIntent
        /\ returned.handled.blocked_reason = None)
    => returned.mode # "DISABLED"

====
